---- MODULE Spec2Model ----
(***************************************************************************)
(* Territory mapping system: the quotes page, the partners page and the    *)
(* territory map (client handlers), the persistence collaborator they call *)
(* (Supabase remote procedures: point matching, overlap detection,         *)
(* priority resolution) and the GeoJSON <-> Leaflet geometry adapter.      *)
(*                                                                         *)
(* Numbers are integers.  In the matcher and the entry-point part a        *)
(* coordinate is a whole number of degrees.  A nullable JavaScript value   *)
(* is a sequence: <<>> for null/undefined, <<v>> for the value v; a        *)
(* nullable message is the string "null" or the message.  A handler is one *)
(* action: its remote calls answer (or fail) within the step.              *)
(***************************************************************************)
EXTENDS Integers, Sequences, FiniteSets, TLC

VARIABLES
    \* ---- persistence collaborator (database) ----
    terrs,              \* territories: id -> [exists, name, partner_id, priority, geom]
    partners,           \* partners: id -> [exists, active]
    quotes,             \* quotes, oldest first
    \* ---- quotes page (QuotesPage) ----
    lat, lng,           \* the two text inputs of the create form
    assignment,         \* AssignmentRow | null
    created,            \* CreatedQuoteRow | null
    rows,               \* the quotes list last loaded from v_quotes_list
    infoMsg, errorMsg,  \* messages of the quotes page
    \* ---- territory map (TerritoryMap with selection and overlaps) ----
    mode,               \* "quote" | "draw"
    quoteLat, quoteLng, \* the quote point, null or a number
    match,              \* FindResult | null
    territories,        \* the rows last loaded from v_territories_geojson
    selectedTerritory,  \* SelectedTerritory | null
    selectedLayer,      \* selectedLayerRef.current: the layer or null
    editName, editPriority, editPartnerId,
    overlaps, overlapIds,
    auditOpen, globalOverlaps,
    mapErrorMsg, mapInfoMsg,
    resolveStreak,      \* history: consecutive answered resolve calls (0, 1, 2)
    partnersActive,     \* ids of the partners last loaded with active = true
    selectedPartnerId,  \* selectedPartnerIdRef.current: "" (null) or an id
    \* ---- partners page (PartnersPage) ----
    pName, pActive, pEditingId, pList, pErrorMsg,
    \* ---- geometry adapter ----
    geojson,            \* the persisted geometry handed to the adapter
    polys,              \* the Leaflet polygons it returned
    adapterThrew,       \* whether the conversion raised an error
    persisted,          \* layer.toGeoJSON().geometry of each polygon
    \* ---- bookkeeping of the last handler that ran ----
    lastOp,             \* name of the handler
    lastCalls,          \* the remote calls that handler issued, in order
    lastData,           \* the rows its first remote call answered with
    lastError,          \* the error that ended its calls, or "null"
    \* ---- requests of the map that have not been answered yet ----
    inflight,           \* the fetches issued and still awaited
    issueSeq,           \* how many fetches have been issued
    \* ---- the session, and what the quote pages made of it ----
    session,            \* no user, or the role of the signed-in user's profile
    admin,              \* QuotesPage: const [admin, setAdmin] = useState(false)
    detailRow,          \* QuoteDetailPage: the quote shown, or null
    detailAdmin,        \* QuoteDetailPage: const [admin, setAdmin]
    detailErrorMsg,     \* QuoteDetailPage: errorMsg
    \* ---- operations that have started and not settled yet ----
    busy,               \* the busy flags of the pages, by name
    formPending,        \* QuotesPage: the requests awaited by its handlers
    quoteId             \* map quote tool: the id of the quote it created, or null

storeVars == <<terrs, partners, quotes>>
quoteVars == <<lat, lng, assignment, created, rows, infoMsg, errorMsg>>
pointVars == <<quoteLat, quoteLng, match>>
selVars == <<selectedTerritory, selectedLayer, editName, editPriority,
             editPartnerId, overlaps, overlapIds>>
drawVars == <<partnersActive, selectedPartnerId>>
mapVars == <<mode, pointVars, territories, selVars, auditOpen, globalOverlaps,
             mapErrorMsg, mapInfoMsg, resolveStreak, drawVars>>
partnerVars == <<pName, pActive, pEditingId, pList, pErrorMsg>>
geomVars == <<geojson, polys, adapterThrew, persisted>>
lastVars == <<lastOp, lastCalls, lastData, lastError>>
netVars == <<inflight, issueSeq>>
authVars == <<session, admin, detailRow, detailAdmin, detailErrorMsg>>
busyVars == <<busy, formPending, quoteId>>

\* The busy flags: geocoding, finding, creating, listLoading and exporting
\* of QuotesPage; finding and creating of the map quote tool; loading of the
\* find-partner action of the map.
BusyFlags == {"geocoding", "finding", "creating", "listLoading", "exporting",
              "map.finding", "map.creating", "loading"}
vars == <<storeVars, quoteVars, mapVars, partnerVars, geomVars, lastVars, netVars, busyVars,
          authVars>>

-----------------------------------------------------------------------------
(* Bounds of the model *)

MaxTerr == 3
MaxPriority == 1

TerrIds == 1..MaxTerr
PartnerIds == {1, 2}
Priorities == 0..MaxPriority

\* The points the matcher is asked about.  PA and PB can be covered by
\* territories; every other point ((0,-73), out-of-range points, ...) is
\* covered by none.
PA == <<45, -73>>
PB == <<46, -73>>
Coverable == {PA, PB}
Shapes == (SUBSET Coverable) \ {{}}

None == <<>>
Some(x) == <<x>>
NoMsg == "null"

-----------------------------------------------------------------------------
(* JavaScript conversions *)

\* Number(s) for the strings the model types into an input.  The empty
\* string (and a blank one) converts to 0, a non-numeric string to NaN.
Number(s) ==
    CASE s = ""     -> [fin |-> TRUE,  v |-> 0]
      [] s = " "    -> [fin |-> TRUE,  v |-> 0]
      [] s = "abc"  -> [fin |-> FALSE, v |-> 0]
      [] s = "0"    -> [fin |-> TRUE,  v |-> 0]
      [] s = "45"   -> [fin |-> TRUE,  v |-> 45]
      [] s = "46"   -> [fin |-> TRUE,  v |-> 46]
      [] s = "90"   -> [fin |-> TRUE,  v |-> 90]
      [] s = "91"   -> [fin |-> TRUE,  v |-> 91]
      [] s = "-91"  -> [fin |-> TRUE,  v |-> -91]
      [] s = "-73"  -> [fin |-> TRUE,  v |-> -73]
      [] s = "180"  -> [fin |-> TRUE,  v |-> 180]
      [] s = "181"  -> [fin |-> TRUE,  v |-> 181]
      [] s = "-181" -> [fin |-> TRUE,  v |-> -181]

\* String.prototype.trim
Trim(s) == IF s = " " THEN "" ELSE s

-----------------------------------------------------------------------------
(* Persistence collaborator: Point Matcher                                 *)

Contains(t, pt) == terrs[t].exists /\ pt \in terrs[t].geom

\* Mutant: the partner's active flag is not consulted.
Eligible_NoActiveCheck(t, pt) == Contains(t, pt)

\* Only territories of an active partner are eligible.
Eligible(t, pt) == Contains(t, pt) /\ partners[terrs[t].partner_id].active

\* Row order of the answer: higher priority first; equal priorities by
\* territory identity.
Before(t, u) ==
    \/ terrs[t].priority > terrs[u].priority
    \/ terrs[t].priority = terrs[u].priority /\ t <= u

AssignmentRowOf(t) ==
    [territory_id |-> t,
     assigned_partner_id |-> terrs[t].partner_id,
     priority |-> terrs[t].priority]

RECURSIVE SortedRows(_)
SortedRows(S) ==
    IF S = {} THEN <<>>
    ELSE LET t == CHOOSE x \in S : \A u \in S : Before(x, u)
         IN  <<AssignmentRowOf(t)>> \o SortedRows(S \ {t})

\* find_assignment_by_point(lat, lng) / find_partner_by_point(lat, lng)
find_assignment_by_point(la, ln) ==
    SortedRows({t \in TerrIds : Eligible(t, <<la, ln>>)})

-----------------------------------------------------------------------------
(* Quotes page *)

\* parseLatLng: the thrown message, or "null" when both numbers pass.
parseLatLngError(latNum, lngNum) ==
    IF ~latNum.fin \/ latNum.v < -90 \/ latNum.v > 90 THEN "Invalid latitude"
    ELSE IF ~lngNum.fin \/ lngNum.v < -180 \/ lngNum.v > 180 THEN "Invalid longitude"
    ELSE NoMsg

\* Mutant: the last row is kept instead of the first.
FirstRow_Last(data) == IF Len(data) = 0 THEN None ELSE Some(data[Len(data)])

\* data?.[0] ?? null
FirstRow(data) == IF Len(data) = 0 THEN None ELSE Some(data[1])

\* Mutant: no message when nothing matched.
NoMatchInfo_Silent(first) == NoMsg

\* if (!first) setInfoMsg(t("noMatch"))
NoMatchInfo(first) == IF first = None THEN "noMatch" ELSE NoMsg

\* Bookkeeping: the handler that ran, its calls, the first call's answer.
DidLast(op, calls, data, err) ==
    /\ lastOp' = op /\ lastCalls' = calls /\ lastData' = data /\ lastError' = err

\* A handler run from its first statement to its last, every call answered
\* before the next event: it leaves no request in flight.  None of these
\* handlers reads or changes the session or the admin flags.
Did(op, calls, data, err) ==
    /\ DidLast(op, calls, data, err)
    /\ UNCHANGED <<netVars, busyVars, authVars>>

\* onChange of the latitude / longitude inputs
TypeLat(S) ==
    /\ \E s \in S : lat' = s
    /\ Did("TypeLat", <<>>, <<>>, NoMsg)
    /\ UNCHANGED <<storeVars, lng, assignment, created, rows, infoMsg, errorMsg,
                   mapVars, partnerVars, geomVars>>

TypeLng(S) ==
    /\ \E s \in S : lng' = s
    /\ Did("TypeLng", <<>>, <<>>, NoMsg)
    /\ UNCHANGED <<storeVars, lat, assignment, created, rows, infoMsg, errorMsg,
                   mapVars, partnerVars, geomVars>>

\* findAssignment: resetResult(), parseLatLng(), the remote call, then the
\* result or the caught error.
findAssignment ==
    LET latNum == Number(lat)
        lngNum == Number(lng)
        bad == parseLatLngError(latNum, lngNum)
    IN  /\ lastOp' = "findAssignment"
        /\ created' = None
        /\ UNCHANGED <<storeVars, lat, lng, rows, mapVars, partnerVars, geomVars,
                       netVars, busyVars, authVars>>
        /\ IF bad # NoMsg
           THEN /\ errorMsg' = bad
                /\ infoMsg' = NoMsg
                /\ assignment' = None
                /\ lastCalls' = <<>>
                /\ lastData' = <<>>
                /\ lastError' = NoMsg
           ELSE /\ lastCalls' = <<[rpc |-> "find_assignment_by_point",
                                   lat |-> latNum.v, lng |-> lngNum.v]>>
                /\ \/ \* the call fails
                      /\ errorMsg' = "rpc error"
                      /\ infoMsg' = NoMsg
                      /\ assignment' = None
                      /\ lastData' = <<>>
                      /\ lastError' = "rpc error"
                   \/ \* the call answers
                      LET data == find_assignment_by_point(latNum.v, lngNum.v)
                          first == FirstRow(data)
                      IN  /\ assignment' = first
                          /\ infoMsg' = NoMatchInfo(first)
                          /\ errorMsg' = NoMsg
                          /\ lastData' = data
                          /\ lastError' = NoMsg

-----------------------------------------------------------------------------
(* Persistence collaborator: Overlap Detector and Priority Resolver.       *)
(* ts is the territory table the call runs on.                             *)

OverlapIn_OneWay(ts, t, u) ==
    /\ t < u /\ ts[t].exists /\ ts[u].exists
    /\ ts[t].geom \cap ts[u].geom # {}

\* ST_Intersects of two different territories
OverlapIn(ts, t, u) ==
    /\ t # u /\ ts[t].exists /\ ts[u].exists
    /\ ts[t].geom \cap ts[u].geom # {}

OverlapSetIn(ts, t) == {u \in TerrIds : OverlapIn(ts, t, u)}

MaxOf(S) == CHOOSE m \in S : \A x \in S : x <= m
MinOf(S) == CHOOSE m \in S : \A x \in S : m <= x

OverlapRowOf(ts, u) ==
    [other_id |-> u, other_partner_id |-> ts[u].partner_id,
     other_priority |-> ts[u].priority]

RECURSIVE OverlapRows(_, _)
OverlapRows(ts, S) ==
    IF S = {} THEN <<>>
    ELSE <<OverlapRowOf(ts, MinOf(S))>> \o OverlapRows(ts, S \ {MinOf(S)})

\* get_overlaps_for_territory(p_territory_id): every other territory whose
\* geometry intersects it.
get_overlaps_for_territory(ts, id) == OverlapRows(ts, OverlapSetIn(ts, id))

GlobalOverlapRowOf(ts, t, u) ==
    [t1_id |-> t, t1_priority |-> ts[t].priority,
     t2_id |-> u, t2_priority |-> ts[u].priority,
     overlap_area |-> Cardinality(ts[t].geom \cap ts[u].geom)]

RECURSIVE GlobalRows(_, _)
GlobalRows(ts, P) ==
    IF P = {} THEN <<>>
    ELSE LET pr == CHOOSE x \in P :
                      \A y \in P : x[1] < y[1] \/ (x[1] = y[1] /\ x[2] <= y[2])
         IN  <<GlobalOverlapRowOf(ts, pr[1], pr[2])>> \o GlobalRows(ts, P \ {pr})

\* list_overlaps(): every overlapping pair, once.
list_overlaps(ts) ==
    GlobalRows(ts, {pr \in TerrIds \X TerrIds : pr[1] < pr[2] /\ OverlapIn(ts, pr[1], pr[2])})

\* Mutant: the territory's own priority counts in the maximum.
RaisedPriority_CountsSelf(ts, id) ==
    1 + MaxOf({ts[u].priority : u \in OverlapSetIn(ts, id) \cup {id}})

\* One more than the highest priority among the territories id overlaps.
RaisedPriority(ts, id) ==
    1 + MaxOf({ts[u].priority : u \in OverlapSetIn(ts, id)})

\* resolve_overlap_raise_priority(p_territory_id): the returned rows ...
resolve_overlap_raise_priority(ts, id) ==
    IF ~ts[id].exists \/ OverlapSetIn(ts, id) = {} THEN <<>>
    ELSE <<[old_priority |-> ts[id].priority,
            new_priority |-> RaisedPriority(ts, id)]>>

\* ... and the table it leaves.
TerrsAfterResolve(ts, id) ==
    IF ~ts[id].exists \/ OverlapSetIn(ts, id) = {} THEN ts
    ELSE [ts EXCEPT ![id].priority = RaisedPriority(ts, id)]

\* select id,name,partner_id,priority,geojson from v_territories_geojson
v_territories_geojson(ts) ==
    {[id |-> t, name |-> ts[t].name, partner_id |-> ts[t].partner_id,
      priority |-> ts[t].priority, geom |-> ts[t].geom] :
        t \in {x \in TerrIds : ts[x].exists}}

-----------------------------------------------------------------------------
(* Territory map: selection, overlaps, priority resolution *)

Info(kind) == [kind |-> kind, old |-> 0, new |-> 0]

PriorityCap == MaxPriority + 1

RpcError == "rpc error"

\* syncTerritoriesToFeatureGroup: the layer built from a loaded row.
LayerOf(tr) ==
    [territory |-> [id |-> tr.id, name |-> tr.name, partner_id |-> tr.partner_id,
                    priority |-> tr.priority],
     geom |-> tr.geom]

\* clearSelection
clearSelection ==
    /\ selectedLayer' = None
    /\ selectedTerritory' = None
    /\ editName' = ""
    /\ editPriority' = [fin |-> TRUE, v |-> 0, frac |-> 0]
    /\ editPartnerId' = None
    /\ overlaps' = <<>>
    /\ overlapIds' = {}

\* The mode buttons, and the effect on [mode]: leaving draw mode clears the
\* selection.
setMode ==
    \E m \in {"quote", "draw"} :
        /\ m # mode
        /\ mode' = m
        /\ IF m # "draw" THEN clearSelection ELSE UNCHANGED selVars
        /\ resolveStreak' = 0
        /\ Did("setMode", <<>>, <<>>, NoMsg)
        /\ UNCHANGED <<storeVars, quoteVars, pointVars, territories, auditOpen,
                       globalOverlaps, mapErrorMsg, mapInfoMsg, drawVars, partnerVars, geomVars>>

\* loadTerritories (run on mount): setErrorMsg(null), the select, then the rows
\* or the error.
loadTerritories ==
    /\ \/ /\ territories' = v_territories_geojson(terrs)
          /\ mapErrorMsg' = NoMsg
          /\ Did("loadTerritories", <<[rpc |-> "v_territories_geojson"]>>,
                 <<>>, NoMsg)
       \/ /\ territories' = territories
          /\ mapErrorMsg' = RpcError
          /\ Did("loadTerritories", <<[rpc |-> "v_territories_geojson"]>>,
                 <<>>, RpcError)
    /\ resolveStreak' = 0
    /\ UNCHANGED <<storeVars, quoteVars, mode, pointVars, selVars, auditOpen,
                   globalOverlaps, mapInfoMsg, drawVars, partnerVars, geomVars>>

\* loadOverlaps(territoryId) on the table ts; ok: whether the call answers.
loadOverlaps(ts, id, ok) ==
    /\ overlaps' = IF ok THEN get_overlaps_for_territory(ts, id) ELSE <<>>
    /\ overlapIds' = IF ok THEN {id} \cup OverlapSetIn(ts, id) ELSE {id}

\* The error message left by loadTerritories(); loadOverlaps(id);
\* if (auditOpen) loadGlobalOverlaps(), run in that order.
ErrorAfterRefetch(okT, okO, okG) ==
    IF auditOpen THEN (IF okG THEN NoMsg ELSE RpcError)
    ELSE IF ~okO THEN RpcError
    ELSE IF ~okT THEN RpcError
    ELSE NoMsg

\* selectLayer(layer): a click on a polygon in draw mode, or a "focus" button.
selectLayer ==
    /\ mode = "draw"
    /\ \E tr \in territories : \E okO \in BOOLEAN :
        /\ selectedLayer' = Some(LayerOf(tr))
        /\ selectedTerritory' = Some(LayerOf(tr).territory)
        /\ editName' = tr.name
        /\ editPriority' = [fin |-> TRUE, v |-> tr.priority, frac |-> 0]
        /\ editPartnerId' = Some(tr.partner_id)
        /\ loadOverlaps(terrs, tr.id, okO)
        /\ mapErrorMsg' = IF okO THEN mapErrorMsg ELSE RpcError
        /\ Did("selectLayer",
               <<[rpc |-> "get_overlaps_for_territory", id |-> tr.id]>>,
               IF okO THEN get_overlaps_for_territory(terrs, tr.id) ELSE <<>>,
               IF okO THEN NoMsg ELSE RpcError)
    /\ resolveStreak' = 0
    /\ UNCHANGED <<storeVars, quoteVars, mode, pointVars, territories, auditOpen,
                   globalOverlaps, mapInfoMsg, drawVars, partnerVars, geomVars>>

\* The show/hide link of the audit panel.
toggleAudit ==
    /\ mode = "draw"
    /\ auditOpen' = ~auditOpen
    /\ IF ~auditOpen
       THEN \/ /\ globalOverlaps' = list_overlaps(terrs)
               /\ mapErrorMsg' = NoMsg
               /\ Did("toggleAudit", <<[rpc |-> "list_overlaps"]>>, <<>>, NoMsg)
            \/ /\ globalOverlaps' = globalOverlaps
               /\ mapErrorMsg' = RpcError
               /\ Did("toggleAudit", <<[rpc |-> "list_overlaps"]>>, <<>>, RpcError)
       ELSE /\ UNCHANGED <<globalOverlaps, mapErrorMsg>>
            /\ Did("toggleAudit", <<>>, <<>>, NoMsg)
    /\ resolveStreak' = 0
    /\ UNCHANGED <<storeVars, quoteVars, mode, pointVars, territories, selVars,
                   mapInfoMsg, drawVars, partnerVars, geomVars>>

\* Mutant: the message shows the two priorities the wrong way round.
ResolveInfo_Swapped(row) ==
    [kind |-> "priority", old |-> row.new_priority, new |-> row.old_priority]

\* setInfoMsg(`${t("priority")}: ${row.old_priority} -> ${row.new_priority}`)
ResolveInfo(row) ==
    [kind |-> "priority", old |-> row.old_priority, new |-> row.new_priority]

\* The calls resolveSelectedOverlap issues after the resolve call answered.
ResolveCalls(id) ==
    <<[rpc |-> "resolve_overlap_raise_priority", id |-> id],
      [rpc |-> "v_territories_geojson"],
      [rpc |-> "get_overlaps_for_territory", id |-> id]>>
    \o (IF auditOpen THEN <<[rpc |-> "list_overlaps"]>> ELSE <<>>)

\* resolveSelectedOverlap
resolveSelectedOverlap ==
    /\ selectedTerritory # None
    /\ LET id == selectedTerritory[1].id
           data == resolve_overlap_raise_priority(terrs, id)
       IN  \/ \* the resolve call fails
              /\ mapErrorMsg' = RpcError
              /\ mapInfoMsg' = Info("null")
              /\ resolveStreak' = 0
              /\ Did("resolveSelectedOverlap",
                     <<[rpc |-> "resolve_overlap_raise_priority", id |-> id]>>,
                     <<>>, RpcError)
              /\ UNCHANGED <<storeVars, territories, selVars, globalOverlaps>>
           \/ \* it answers; the three re-fetches answer or fail
              /\ data # <<>> => data[1].new_priority <= PriorityCap
              /\ terrs' = TerrsAfterResolve(terrs, id)
              /\ UNCHANGED <<partners, quotes>>
              /\ mapInfoMsg' = IF data # <<>> THEN ResolveInfo(data[1])
                               ELSE Info("saved")
              /\ editPriority' = IF data # <<>>
                                 THEN [fin |-> TRUE, v |-> data[1].new_priority,
                                       frac |-> 0]
                                 ELSE editPriority
              /\ \E okT, okO, okG \in BOOLEAN :
                    /\ territories' = IF okT THEN v_territories_geojson(terrs')
                                      ELSE territories
                    /\ loadOverlaps(terrs', id, okO)
                    /\ globalOverlaps' = IF auditOpen /\ okG
                                         THEN list_overlaps(terrs')
                                         ELSE globalOverlaps
                    /\ mapErrorMsg' = ErrorAfterRefetch(okT, okO, okG)
              /\ resolveStreak' = IF data = <<>> THEN 0
                                  ELSE IF resolveStreak = 0 THEN 1 ELSE 2
              /\ Did("resolveSelectedOverlap", ResolveCalls(id), data, NoMsg)
              /\ UNCHANGED <<selectedTerritory, selectedLayer, editName,
                             editPartnerId>>
    /\ UNCHANGED <<quoteVars, mode, pointVars, auditOpen, drawVars, partnerVars, geomVars>>

-----------------------------------------------------------------------------
(* Geometry adapter: geojsonToLeafletPolygons and layer.toGeoJSON()         *)
(*                                                                         *)
(* A JSON value is a record [k, items]: k = "arr" for an array with its    *)
(* items, another k ("undef", "null", "num") for a value that is no array. *)
(* A coordinate is a record [k, v]: k = "num" for a finite number of v     *)
(* units of 1e-7 degree, "inf" for an infinite number (JSON 1e999),        *)
(* "null", or "str" for a string that is no number.                        *)

Arr(items) == [k |-> "arr", items |-> items]
NotArr(kind) == [k |-> kind, items |-> <<>>]

Num(v) == [k |-> "num", v |-> v]
CNull == [k |-> "null", v |-> 0]
CInf == [k |-> "inf", v |-> 0]
CStr == [k |-> "str", v |-> 0]

Pt(x, y) == Arr(<<x, y>>)

SeqMap(F(_), s) == [i \in 1..Len(s) |-> F(s[i])]

RECURSIVE Flatten(_)
Flatten(ss) == IF ss = <<>> THEN <<>> ELSE Head(ss) \o Flatten(Tail(ss))

\* .map((pt) => [pt[1], pt[0]])
SwapAxes(pt) == <<pt.items[2], pt.items[1]>>

\* pt[0] != null, pt[1] != null: neither null nor undefined
NotNullish(c) == c.k # "null" /\ c.k # "undef"

\* The point filter of addPolygonCoords.
PointKept(pt) ==
    /\ pt.k = "arr"
    /\ Len(pt.items) >= 2
    /\ NotNullish(pt.items[1])
    /\ NotNullish(pt.items[2])

\* One ring after the point filter and the axis swap.
FilteredRing(ring) ==
    IF ring.k = "arr" THEN SeqMap(SwapAxes, SelectSeq(ring.items, PointKept))
    ELSE <<>>

RingKept(r) == Len(r) >= 3

\* Leaflet: new LatLng(lat, lng) throws when isNaN(lat) or isNaN(lng).
IsNaNCoord(c) == c.k = "str" \/ c.k = "nan"

LatLngThrows(rings) ==
    \E i \in 1..Len(rings) : \E j \in 1..Len(rings[i]) :
        IsNaNCoord(rings[i][j][1]) \/ IsNaNCoord(rings[i][j][2])

\* Leaflet: LatLng.equals (two infinities are not equal: their difference is NaN)
LatLngEquals(a, b) ==
    /\ a[1].k = "num" /\ a[2].k = "num"
    /\ a = b

\* Leaflet: Polygon._convertLatLngs removes the last point of a ring if it
\* equals the first one.
ConvertLatLngs(r) ==
    IF Len(r) >= 2 /\ LatLngEquals(r[1], r[Len(r)]) THEN SubSeq(r, 1, Len(r) - 1)
    ELSE r

\* L.polygon(rings)
L_polygon(rings) == [latlngs |-> SeqMap(ConvertLatLngs, rings)]

NoPolys == [threw |-> FALSE, polys |-> <<>>]
Threw == [threw |-> TRUE, polys |-> <<>>]

\* addPolygonCoords(coords): the polygons it pushes, or the exception
addPolygonCoords(coords) ==
    IF coords.k # "arr" \/ Len(coords.items) = 0 THEN NoPolys
    ELSE LET rings == SelectSeq(SeqMap(FilteredRing, coords.items), RingKept)
         IN  IF rings = <<>> THEN NoPolys
             ELSE IF LatLngThrows(rings) THEN Threw
             ELSE [threw |-> FALSE, polys |-> <<L_polygon(rings)>>]

\* The results of a loop of calls, in order; an exception ends the loop.
RECURSIVE Collect(_)
Collect(rs) ==
    IF rs = <<>> THEN NoPolys
    ELSE IF Head(rs).threw THEN Threw
    ELSE LET rest == Collect(Tail(rs))
         IN  IF rest.threw THEN Threw
             ELSE [threw |-> FALSE, polys |-> Head(rs).polys \o rest.polys]

\* for (const x of v || []): a number or an object is not iterable
NotIterable(v) == v.k = "num"

\* geojsonToLeafletPolygons(geojson); mg is <<>> for null, else <<geojson>>.
RECURSIVE geojsonToLeafletPolygons(_)
geojsonToLeafletPolygons(mg) ==
    IF mg = <<>> THEN NoPolys
    ELSE LET g == mg[1]
             geom == IF g.type = "Feature" THEN g.geometry
                     ELSE IF g.type = "FeatureCollection" THEN <<>>
                     ELSE <<g>>
         IN  IF geom = <<>>
             THEN IF g.type = "FeatureCollection" /\ g.features.k = "arr"
                  THEN Collect(SeqMap(geojsonToLeafletPolygons, g.features.items))
                  ELSE NoPolys
             ELSE IF geom[1].type = "Polygon"
                  THEN addPolygonCoords(geom[1].coordinates)
             ELSE IF geom[1].type = "MultiPolygon"
                  THEN IF NotIterable(geom[1].coordinates) THEN Threw
                       ELSE Collect(SeqMap(addPolygonCoords, geom[1].coordinates.items))
             ELSE NoPolys

\* Leaflet: formatNum(num, 6) = Math.round(num * 1e6) / 1e6, in units of 1e-7
formatNum(c) == IF c.k = "num" THEN Num(10 * ((c.v + 5) \div 10)) ELSE c

\* Leaflet: latLngToCoords: [lng, lat], each rounded to 6 decimals
latLngToCoords(ll) == Pt(formatNum(ll[2]), formatNum(ll[1]))

latLngsToCoords_Open(r) == Arr(SeqMap(latLngToCoords, r))

\* Leaflet: latLngsToCoords(ring, 0, true): the ring is closed with a copy of
\* its first point.
latLngsToCoords(r) ==
    LET coords == SeqMap(latLngToCoords, r)
    IN  Arr(IF Len(coords) > 0 THEN Append(coords, coords[1]) ELSE coords)

\* layer.toGeoJSON().geometry
toGeoJSON(poly) ==
    [type |-> "Polygon",
     coordinates |-> Arr(SeqMap(latLngsToCoords, poly.latlngs)),
     geometry |-> <<>>,
     features |-> NotArr("undef")]

-----------------------------------------------------------------------------
(* Quotes page: quote creation *)

MaxQuotes == 1

\* The reason stored with an unassigned quote.
UnassignedReason(la, ln) ==
    IF \E t \in TerrIds : Contains(t, <<la, ln>>) THEN "no_active_partner"
    ELSE "no_territory_match"

NewQuote_RefsWithoutStatus(la, ln) ==
    LET first == FirstRow(find_assignment_by_point(la, ln))
    IN  [id |-> Len(quotes) + 1, lat |-> la, lng |-> ln,
         status |-> "unassigned",
         reason |-> Some(UnassignedReason(la, ln)),
         territory_id |-> IF first = None THEN None ELSE Some(first[1].territory_id),
         assigned_partner_id |->
             IF first = None THEN None ELSE Some(first[1].assigned_partner_id)]

\* create_quote(p_address, p_lat, p_lng): the quote is stored with the answer
\* the matcher gives at that moment.
NewQuote(la, ln) ==
    LET first == FirstRow(find_assignment_by_point(la, ln))
    IN  [id |-> Len(quotes) + 1, lat |-> la, lng |-> ln,
         status |-> IF first = None THEN "unassigned" ELSE "assigned",
         reason |-> IF first = None THEN Some(UnassignedReason(la, ln)) ELSE None,
         territory_id |-> IF first = None THEN None ELSE Some(first[1].territory_id),
         assigned_partner_id |->
             IF first = None THEN None ELSE Some(first[1].assigned_partner_id)]

CreatedQuoteRowOf(q) ==
    [quote_id |-> q.id, status |-> q.status, reason |-> q.reason,
     territory_id |-> q.territory_id,
     assigned_partner_id |-> q.assigned_partner_id]

\* The one row create_quote returns.
create_quote(la, ln) == <<CreatedQuoteRowOf(NewQuote(la, ln))>>

RECURSIVE Reverse(_)
Reverse(q) == IF q = <<>> THEN <<>> ELSE Append(Reverse(Tail(q)), Head(q))

\* select * from v_quotes_list order by created_at desc
v_quotes_list(qs) == Reverse(qs)

\* createQuote: resetResult(), parseLatLng(), the remote call, the result,
\* loadQuotes(true).
createQuote ==
    LET latNum == Number(lat)
        lngNum == Number(lng)
        bad == parseLatLngError(latNum, lngNum)
        call == [rpc |-> "create_quote", lat |-> latNum.v, lng |-> lngNum.v]
    IN  /\ assignment' = None
        /\ UNCHANGED <<terrs, partners, lat, lng, mapVars, partnerVars, geomVars>>
        /\ IF bad # NoMsg
           THEN /\ errorMsg' = bad /\ infoMsg' = NoMsg /\ created' = None
                /\ Did("createQuote", <<>>, <<>>, NoMsg)
                /\ UNCHANGED <<quotes, rows>>
           ELSE \/ \* the call fails
                   /\ errorMsg' = "rpc error" /\ infoMsg' = NoMsg /\ created' = None
                   /\ Did("createQuote", <<call>>, <<>>, "rpc error")
                   /\ UNCHANGED <<quotes, rows>>
                \/ \* the call answers; the list is loaded again, or the load fails
                   /\ Len(quotes) < MaxQuotes
                   /\ quotes' = Append(quotes, NewQuote(latNum.v, lngNum.v))
                   /\ created' = FirstRow(create_quote(latNum.v, lngNum.v))
                   /\ infoMsg' = IF NewQuote(latNum.v, lngNum.v).status = "unassigned"
                                 THEN "noMatch" ELSE NoMsg
                   /\ \/ rows' = v_quotes_list(quotes') /\ errorMsg' = NoMsg
                      \/ rows' = rows /\ errorMsg' = "rpc error"
                   /\ Did("createQuote", <<call, [rpc |-> "v_quotes_list"]>>,
                          create_quote(latNum.v, lngNum.v), NoMsg)

-----------------------------------------------------------------------------
(* Territory map: the quote point *)

FindResultOf(row) ==
    [partner_id |-> row.assigned_partner_id, territory_id |-> row.territory_id]

\* find_partner_by_point(lat, lng)
find_partner_by_point(la, ln) == SeqMap(FindResultOf, find_assignment_by_point(la, ln))

\* setQuotePoint(lat, lng)
setQuotePoint(la, ln) ==
    /\ quoteLat' = Some(la)
    /\ quoteLng' = Some(ln)
    /\ match' = None

\* ClickToSelect: a click on the map in quote mode; onSelect = setQuotePoint.
\* The longitude of a click is not wrapped: it leaves [-180, 180] once the
\* map has been panned across the antimeridian.
MapClick(LatS, LngS) ==
    /\ mode = "quote"
    /\ \E la \in LatS : \E ln \in LngS : setQuotePoint(la, ln)
    /\ resolveStreak' = 0
    /\ Did("setQuotePoint", <<>>, <<>>, NoMsg)
    /\ UNCHANGED <<storeVars, quoteVars, mode, territories, selVars, auditOpen,
                   globalOverlaps, mapErrorMsg, mapInfoMsg, drawVars, partnerVars, geomVars>>

\* findPartner
findPartner ==
    /\ quoteLat # None /\ quoteLng # None
    /\ LET call == [rpc |-> "find_partner_by_point",
                    lat |-> quoteLat[1], lng |-> quoteLng[1]]
           data == find_partner_by_point(quoteLat[1], quoteLng[1])
       IN  \/ /\ mapErrorMsg' = RpcError
              /\ UNCHANGED match
              /\ Did("findPartner", <<call>>, <<>>, RpcError)
           \/ /\ mapErrorMsg' = NoMsg
              /\ match' = FirstRow(data)
              /\ Did("findPartner", <<call>>, data, NoMsg)
    /\ resolveStreak' = 0
    /\ UNCHANGED <<storeVars, quoteVars, mode, quoteLat, quoteLng, territories,
                   selVars, auditOpen, globalOverlaps, mapInfoMsg, drawVars, partnerVars,
                   geomVars>>

\* The effect on [searchParams]: /map?lat=..&lng=..; a parameter is <<>> when
\* absent, else <<text>>.
UrlEffect(LatS, LngS) ==
    /\ \E qLat \in LatS : \E qLng \in LngS :
        LET absent == qLat = None \/ qLng = None \/ qLat = Some("") \/ qLng = Some("")
            latNum == Number(qLat[1])
            lngNum == Number(qLng[1])
        IN  IF absent
                \/ ~latNum.fin \/ ~lngNum.fin
                \/ latNum.v < -90 \/ latNum.v > 90
                \/ lngNum.v < -180 \/ lngNum.v > 180
            THEN /\ Did("UrlEffect", <<>>, <<>>, NoMsg)
                 /\ UNCHANGED <<mode, pointVars, selVars, mapErrorMsg>>
            ELSE LET call == [rpc |-> "find_partner_by_point",
                              lat |-> latNum.v, lng |-> lngNum.v]
                     data == find_partner_by_point(latNum.v, lngNum.v)
                 IN  /\ mode' = "quote"
                     /\ IF mode # "quote" THEN clearSelection ELSE UNCHANGED selVars
                     /\ quoteLat' = Some(latNum.v)
                     /\ quoteLng' = Some(lngNum.v)
                     /\ \/ /\ mapErrorMsg' = RpcError
                           /\ match' = None
                           /\ Did("UrlEffect", <<call>>, <<>>, RpcError)
                        \/ /\ mapErrorMsg' = NoMsg
                           /\ match' = FirstRow(data)
                           /\ Did("UrlEffect", <<call>>, data, NoMsg)
    /\ resolveStreak' = 0
    /\ UNCHANGED <<storeVars, quoteVars, territories, auditOpen, globalOverlaps,
                   mapInfoMsg, drawVars, partnerVars, geomVars>>

-----------------------------------------------------------------------------
(* Territory map: saving the selected territory *)

\* onChange of the name input of the selection panel
SetEditName(S) ==
    /\ selectedTerritory # None
    /\ \E s \in S : editName' = s
    /\ resolveStreak' = 0
    /\ Did("setEditName", <<>>, <<>>, NoMsg)
    /\ UNCHANGED <<storeVars, quoteVars, mode, pointVars, territories,
                   selectedTerritory, selectedLayer, editPriority, editPartnerId,
                   overlaps, overlapIds, auditOpen, globalOverlaps, mapErrorMsg,
                   mapInfoMsg, drawVars, partnerVars, geomVars>>

\* upsert_territory(territory_id, partner_id, name, geom_geojson, priority)
upsert_territory(ts, id, pid, name, geom, priority) ==
    [ts EXCEPT ![id] = [exists |-> TRUE, name |-> name, partner_id |-> pid,
                        priority |-> priority, geom |-> geom]]

\* The priority column is an integer: a value with a fraction is refused.
IntegerAccepted(frac) == frac = 0

\* The values typed into the priority input (type="number").
PriorityInputs == {"", "1", "1.5"}

\* Number(e.target.value) for those values: whole part and tenths.
PriorityNumber(s) ==
    CASE s = "" -> [fin |-> TRUE, v |-> 0, frac |-> 0]
      [] s = "1" -> [fin |-> TRUE, v |-> 1, frac |-> 0]
      [] s = "1.5" -> [fin |-> TRUE, v |-> 1, frac |-> 5]

\* onChange of the priority input: setEditPriority(Number(e.target.value))
setEditPriority ==
    /\ selectedTerritory # None
    /\ \E s \in PriorityInputs :
          /\ editPriority # PriorityNumber(s)
          /\ editPriority' = PriorityNumber(s)
    /\ resolveStreak' = 0
    /\ Did("setEditPriority", <<>>, <<>>, NoMsg)
    /\ UNCHANGED <<storeVars, quoteVars, mode, pointVars, territories,
                   selectedTerritory, selectedLayer, editName, editPartnerId,
                   overlaps, overlapIds, auditOpen, globalOverlaps, mapErrorMsg,
                   mapInfoMsg, drawVars, partnerVars, geomVars>>

\* saveSelectedTerritoryMeta
saveSelectedTerritoryMeta ==
    /\ selectedTerritory # None /\ selectedLayer # None
    /\ resolveStreak' = 0
    /\ UNCHANGED <<partners, quotes, quoteVars, mode, pointVars, editName,
                   editPriority, editPartnerId, auditOpen, drawVars, partnerVars, geomVars>>
    /\ LET id == selectedTerritory[1].id
           name == Trim(editName)
           priority == IF editPriority.fin THEN editPriority.v ELSE 0
           frac == IF editPriority.fin THEN editPriority.frac ELSE 0
           geom == selectedLayer[1].geom
       IN  IF name = ""
           THEN /\ mapErrorMsg' = "nameRequired"
                /\ Did("saveSelectedTerritoryMeta", <<>>, <<>>, NoMsg)
                /\ UNCHANGED <<terrs, territories, selectedTerritory, selectedLayer,
                               overlaps, overlapIds, globalOverlaps, mapInfoMsg>>
           ELSE IF editPartnerId = None
           THEN /\ mapErrorMsg' = "partnerRequired"
                /\ Did("saveSelectedTerritoryMeta", <<>>, <<>>, NoMsg)
                /\ UNCHANGED <<terrs, territories, selectedTerritory, selectedLayer,
                               overlaps, overlapIds, globalOverlaps, mapInfoMsg>>
           ELSE LET call == [rpc |-> "upsert_territory", id |-> id, name |-> name,
                             partner_id |-> editPartnerId[1], priority |-> priority,
                             frac |-> frac, geom |-> geom]
                    meta == [id |-> id, name |-> name, partner_id |-> editPartnerId[1],
                             priority |-> priority]
                IN  \/ \* the call fails
                       /\ mapErrorMsg' = RpcError
                       /\ mapInfoMsg' = Info("null")
                       /\ Did("saveSelectedTerritoryMeta", <<call>>, <<>>, RpcError)
                       /\ UNCHANGED <<terrs, territories, selectedTerritory,
                                      selectedLayer, overlaps, overlapIds,
                                      globalOverlaps>>
                    \/ \* it answers; the re-fetches answer or fail
                       /\ IntegerAccepted(frac)
                       /\ terrs' = upsert_territory(terrs, id, editPartnerId[1], name,
                                                    geom, priority)
                       /\ selectedLayer' = Some([territory |-> meta, geom |-> geom])
                       /\ selectedTerritory' = Some(meta)
                       /\ mapInfoMsg' = Info("saved")
                       /\ \E okT, okO, okG \in BOOLEAN :
                             /\ territories' = IF okT THEN v_territories_geojson(terrs')
                                               ELSE territories
                             /\ loadOverlaps(terrs', id, okO)
                             /\ globalOverlaps' = IF auditOpen /\ okG
                                                  THEN list_overlaps(terrs')
                                                  ELSE globalOverlaps
                             /\ mapErrorMsg' = ErrorAfterRefetch(okT, okO, okG)
                       /\ Did("saveSelectedTerritoryMeta",
                              <<call, [rpc |-> "v_territories_geojson"],
                                [rpc |-> "get_overlaps_for_territory", id |-> id]>>
                              \o (IF auditOpen THEN <<[rpc |-> "list_overlaps"]>>
                                  ELSE <<>>),
                              <<>>, NoMsg)

-----------------------------------------------------------------------------
(* Territory map: active partner, drawing, geometry edit, delete *)

\* A refusal by a row-level security policy, as savePartner recognises it.
RlsError == "new row violates row-level security policy"

\* The messages a failing remote call can carry.
BackendErrors == {RpcError, RlsError}

\* rows.filter((p) => p.active === true)
ActiveOf(ps) == {p \in PartnerIds : ps[p].exists /\ ps[p].active}

FirstActive_AnyPartner(ps) ==
    LET all == {p \in PartnerIds : ps[p].exists}
    IN  CHOOSE p \in all : \A q \in all : p <= q

\* active[0].id, the list being non-empty
FirstActive(ps) ==
    CHOOSE p \in ActiveOf(ps) : \A q \in ActiveOf(ps) : p <= q

\* loadPartners of the map, run once by the mount effect.
loadPartners_Map ==
    /\ lastOp \in {"init", "unmount"}
    /\ \/ \E err \in BackendErrors :
             /\ mapErrorMsg' = err
             /\ UNCHANGED drawVars
             /\ Did("loadPartners", <<[rpc |-> "partners.select"]>>, <<>>, err)
       \/ /\ mapErrorMsg' = NoMsg
          /\ partnersActive' = ActiveOf(partners)
          /\ selectedPartnerId' =
                IF ActiveOf(partners) = {} THEN None
                ELSE IF selectedPartnerId = None THEN Some(FirstActive(partners))
                ELSE selectedPartnerId
          /\ Did("loadPartners", <<[rpc |-> "partners.select"]>>, <<>>, NoMsg)
    /\ resolveStreak' = 0
    /\ UNCHANGED <<storeVars, quoteVars, mode, pointVars, territories, selVars,
                   auditOpen, globalOverlaps, mapInfoMsg, partnerVars, geomVars>>

\* onChange of the active-partner select: one of its options.
SelectPartner ==
    \E p \in partnersActive :
        /\ selectedPartnerId # Some(p)
        /\ selectedPartnerId' = Some(p)
        /\ resolveStreak' = 0
        /\ Did("selectPartner", <<>>, <<>>, NoMsg)
        /\ UNCHANGED <<storeVars, quoteVars, mode, pointVars, territories, selVars,
                       auditOpen, globalOverlaps, mapErrorMsg, mapInfoMsg,
                       partnersActive, partnerVars, geomVars>>

\* The id the database gives a new territory.
FreeIds(ts) == {t \in TerrIds : ~ts[t].exists}
NewId(ts) == CHOOSE t \in FreeIds(ts) : \A u \in FreeIds(ts) : t <= u

\* The shapes a polygon is drawn with, or edited to.
DrawnShapes == {{PB}, {PA, PB}}

\* The names window.prompt can return (null and "" are both falsy).
PromptNames == {"", "T"}

\* Draw.Event.CREATED.  The handler is registered once by initDraw, so the
\* auditOpen it reads is the one of the first render (false): it never
\* reloads the global overlaps.
DrawCreated ==
    /\ resolveStreak' = 0
    /\ UNCHANGED <<partners, quotes, quoteVars, mode, pointVars, selVars, auditOpen,
                   globalOverlaps, drawVars, partnerVars, geomVars>>
    /\ IF mode # "draw"
       THEN /\ mapErrorMsg' = NoMsg /\ mapInfoMsg' = Info("null")
            /\ Did("CREATED", <<>>, <<>>, NoMsg)
            /\ UNCHANGED <<terrs, territories>>
       ELSE IF selectedPartnerId = None
       THEN /\ mapErrorMsg' = "noActiveMessage" /\ mapInfoMsg' = Info("null")
            /\ Did("CREATED", <<>>, <<>>, NoMsg)
            /\ UNCHANGED <<terrs, territories>>
       ELSE \E geom \in DrawnShapes, name \in PromptNames :
              IF name = ""
              THEN /\ mapErrorMsg' = NoMsg /\ mapInfoMsg' = Info("null")
                   /\ Did("CREATED", <<>>, <<>>, NoMsg)
                   /\ UNCHANGED <<terrs, territories>>
              ELSE LET call == [rpc |-> "upsert_territory", id |-> 0, name |-> name,
                                partner_id |-> selectedPartnerId[1], priority |-> 0,
                                frac |-> 0, geom |-> geom]
                   IN  \/ \E err \in BackendErrors :
                             /\ mapErrorMsg' = err /\ mapInfoMsg' = Info("null")
                             /\ Did("CREATED", <<call>>, <<>>, err)
                             /\ UNCHANGED <<terrs, territories>>
                       \/ /\ FreeIds(terrs) # {}
                          /\ terrs' = upsert_territory(terrs, NewId(terrs),
                                                       selectedPartnerId[1], name,
                                                       geom, 0)
                          /\ mapInfoMsg' = Info("Territory saved.")
                          /\ \E okT \in BOOLEAN :
                                /\ territories' = IF okT
                                                  THEN v_territories_geojson(terrs')
                                                  ELSE territories
                                /\ mapErrorMsg' = IF okT THEN NoMsg ELSE RpcError
                          /\ Did("CREATED",
                                 <<call, [rpc |-> "v_territories_geojson"]>>,
                                 <<>>, NoMsg)

\* The most layers one edit session changes.
MaxEdited == 2

\* The upsert_territory call of one edited layer: the metadata are those the
\* layer was built with, the geometry is the edited one.
EditCall(tr, geom) ==
    [rpc |-> "upsert_territory", id |-> tr.id, name |-> tr.name,
     partner_id |-> tr.partner_id, priority |-> tr.priority, frac |-> 0,
     geom |-> geom]

RECURSIVE UpsertEach(_, _)
\* The table after the calls of the sequence have been answered, in order.
UpsertEach(ts, calls) ==
    IF calls = <<>> THEN ts
    ELSE UpsertEach(upsert_territory(ts, calls[1].id, calls[1].partner_id,
                                     calls[1].name, calls[1].geom,
                                     calls[1].priority),
                    Tail(calls))

\* Every order in which the layers of the rows in S can be iterated.
Orders(S) ==
    {s \in [1..Cardinality(S) -> S] : \A i, j \in 1..Cardinality(S) :
                                          i # j => s[i] # s[j]}

\* Draw.Event.EDITED: one upsert per edited layer, one after the other; the
\* first error ends the handler.  Registered once by initDraw: the
\* selectedTerritory and auditOpen it reads are those of the first render
\* (null and false), so only the territory list is loaded again.
DrawEdited ==
    /\ resolveStreak' = 0
    /\ UNCHANGED <<partners, quotes, quoteVars, mode, pointVars, selVars, auditOpen,
                   globalOverlaps, drawVars, partnerVars, geomVars>>
    /\ IF mode # "draw"
       THEN /\ mapErrorMsg' = NoMsg /\ mapInfoMsg' = Info("null")
            /\ Did("EDITED", <<>>, <<>>, NoMsg)
            /\ UNCHANGED <<terrs, territories>>
       ELSE \E S \in SUBSET territories :
              /\ S # {} /\ Cardinality(S) <= MaxEdited
              /\ \E ord \in Orders(S), newGeom \in [S -> DrawnShapes] :
                   LET calls == [i \in 1..Len(ord) |-> EditCall(ord[i], newGeom[ord[i]])]
                   IN  \/ \E k \in 1..Len(calls), err \in BackendErrors :
                             \* the k-th call fails
                             /\ terrs' = UpsertEach(terrs, SubSeq(calls, 1, k - 1))
                             /\ mapErrorMsg' = err /\ mapInfoMsg' = Info("null")
                             /\ UNCHANGED territories
                             /\ Did("EDITED", SubSeq(calls, 1, k), <<>>, err)
                       \/ /\ terrs' = UpsertEach(terrs, calls)
                          /\ mapInfoMsg' = Info("saved")
                          /\ \E okT \in BOOLEAN :
                                /\ territories' = IF okT
                                                  THEN v_territories_geojson(terrs')
                                                  ELSE territories
                                /\ mapErrorMsg' = IF okT THEN NoMsg ELSE RpcError
                          /\ Did("EDITED",
                                 calls \o <<[rpc |-> "v_territories_geojson"]>>,
                                 <<>>, NoMsg)

\* The quotes table after a territory or a partner has been deleted.
QuotesAfterDelete_RefsCleared(qs, table, id) ==
    [i \in 1..Len(qs) |->
        IF table = "territories" /\ qs[i].territory_id = Some(id)
        THEN [qs[i] EXCEPT !.status = "unassigned", !.territory_id = None,
                           !.assigned_partner_id = None,
                           !.reason = Some("territory_deleted")]
        ELSE qs[i]]

\* The quotes table after a territory or a partner has been deleted: a
\* quote is never changed after its creation.
QuotesAfterDelete(qs, table, id) == qs

\* delete_territory(territory_id)
delete_territory(ts, id) ==
    [ts EXCEPT ![id] = [exists |-> FALSE, name |-> "T", partner_id |-> 1,
                        priority |-> 0, geom |-> {}]]

\* deleteSelectedTerritory, the confirmation accepted
deleteSelectedTerritory ==
    /\ selectedTerritory # None
    /\ resolveStreak' = 0
    /\ UNCHANGED <<partners, quoteVars, mode, pointVars, auditOpen,
                   drawVars, partnerVars, geomVars>>
    /\ LET id == selectedTerritory[1].id
           call == [rpc |-> "delete_territory", id |-> id]
       IN  \/ \E err \in BackendErrors :
                 /\ mapErrorMsg' = err /\ mapInfoMsg' = Info("null")
                 /\ Did("deleteSelectedTerritory", <<call>>, <<>>, err)
                 /\ UNCHANGED <<terrs, quotes, territories, selVars, globalOverlaps>>
           \/ /\ terrs' = delete_territory(terrs, id)
              /\ quotes' = QuotesAfterDelete(quotes, "territories", id)
              /\ mapInfoMsg' = Info("deleted")
              /\ clearSelection
              /\ \E okT, okG \in BOOLEAN :
                    /\ territories' = IF okT THEN v_territories_geojson(terrs')
                                      ELSE territories
                    /\ globalOverlaps' = IF auditOpen /\ okG
                                         THEN list_overlaps(terrs')
                                         ELSE globalOverlaps
                    /\ mapErrorMsg' = IF auditOpen
                                      THEN (IF okG THEN NoMsg ELSE RpcError)
                                      ELSE (IF okT THEN NoMsg ELSE RpcError)
              /\ Did("deleteSelectedTerritory",
                     <<call, [rpc |-> "v_territories_geojson"]>>
                     \o (IF auditOpen THEN <<[rpc |-> "list_overlaps"]>> ELSE <<>>),
                     <<>>, NoMsg)

-----------------------------------------------------------------------------
(* Partners page *)

\* select id,name,...,active from partners
PartnerRows(ps) ==
    {[id |-> p, active |-> ps[p].active] : p \in {x \in PartnerIds : ps[x].exists}}

\* loadPartners (run on mount)
loadPartners ==
    /\ \/ /\ pList' = PartnerRows(partners) /\ pErrorMsg' = NoMsg
          /\ Did("loadPartners", <<[rpc |-> "partners.select"]>>, <<>>, NoMsg)
       \/ /\ pList' = {} /\ pErrorMsg' = "loadError"
          /\ Did("loadPartners", <<[rpc |-> "partners.select"]>>, <<>>, RpcError)
    /\ UNCHANGED <<storeVars, quoteVars, mapVars, pName, pActive, pEditingId,
                   geomVars>>

\* onChange of the name input
TypePartnerName(S) ==
    /\ \E s \in S : pName' = s
    /\ Did("setName", <<>>, <<>>, NoMsg)
    /\ UNCHANGED <<storeVars, quoteVars, mapVars, pActive, pEditingId, pList,
                   pErrorMsg, geomVars>>

\* resetForm
resetForm ==
    /\ pEditingId' = None
    /\ pName' = ""
    /\ pActive' = TRUE
    /\ pErrorMsg' = NoMsg

\* The message savePartner shows for a refused write:
\* `${t("saveError")}: ${e.message}`, e.message being t("adminOnly") when the
\* backend's message includes "row-level security".
SaveErrorMsg(err) ==
    IF err = RlsError THEN "saveError: adminOnly" ELSE "saveError: rpc error"

\* savePartner
savePartner ==
    /\ UNCHANGED <<terrs, quotes, quoteVars, mapVars, geomVars>>
    /\ IF Trim(pName) = ""
       THEN /\ pErrorMsg' = "Name is required."
            /\ Did("savePartner", <<>>, <<>>, NoMsg)
            /\ UNCHANGED <<partners, pName, pActive, pEditingId, pList>>
       ELSE LET call == [rpc |-> IF pEditingId # None THEN "partners.update"
                                 ELSE "partners.insert",
                         name |-> Trim(pName), active |-> pActive]
            IN  \/ \* the write fails (an error, or row-level security)
                   \E err \in BackendErrors :
                   /\ pErrorMsg' = SaveErrorMsg(err)
                   /\ Did("savePartner", <<call>>, <<>>, err)
                   /\ UNCHANGED <<partners, pName, pActive, pEditingId, pList>>
                \/ \* the write answers; loadPartners(); resetForm()
                   /\ IF pEditingId # None
                      THEN partners' =
                              IF partners[pEditingId[1]].exists
                              THEN [partners EXCEPT ![pEditingId[1]].active = pActive]
                              ELSE partners
                      ELSE \E id \in PartnerIds :
                              /\ ~partners[id].exists
                              /\ \A x \in PartnerIds : x < id => partners[x].exists
                              /\ partners' = [partners EXCEPT
                                                ![id] = [exists |-> TRUE,
                                                         active |-> pActive]]
                   /\ \/ pList' = PartnerRows(partners')
                      \/ pList' = {}
                   /\ resetForm
                   /\ Did("savePartner", <<call, [rpc |-> "partners.select"]>>,
                          <<>>, NoMsg)

\* startEdit(p): the Edit button of a row
startEdit ==
    /\ \E row \in pList :
          /\ pEditingId # Some(row.id)
          /\ pEditingId' = Some(row.id)
          /\ pName' = "P"
          /\ pActive' = row.active
    /\ pErrorMsg' = NoMsg
    /\ Did("startEdit", <<>>, <<>>, NoMsg)
    /\ UNCHANGED <<storeVars, quoteVars, mapVars, pList, geomVars>>

\* onChange of the Active checkbox
SetActive ==
    /\ pActive' = ~pActive
    /\ Did("setActive", <<>>, <<>>, NoMsg)
    /\ UNCHANGED <<storeVars, quoteVars, mapVars, pName, pEditingId, pList,
                   pErrorMsg, geomVars>>

\* The refusal of a delete that would break a reference.
FkError == "violates foreign key constraint"

\* A partner that a territory or a quote refers to.
Referenced(p) ==
    \/ \E t \in TerrIds : terrs[t].exists /\ terrs[t].partner_id = p
    \/ \E i \in 1..Len(quotes) : quotes[i].assigned_partner_id = Some(p)

\* setErrorMsg(t("deleteBlocked")), or the prefix and the raw message
DeleteErrorMsg(err) ==
    IF err = FkError THEN "deleteBlocked"
    ELSE IF err = RlsError
    THEN "deleteError: new row violates row-level security policy"
    ELSE "deleteError: rpc error"

\* deletePartner(id), the confirmation accepted
deletePartner ==
    /\ \E row \in pList :
        LET call == [rpc |-> "partners.delete", id |-> row.id]
        IN  \/ \* the delete is refused
               /\ \E err \in BackendErrors \cup {FkError} :
                     /\ err = FkError => Referenced(row.id)
                     /\ pErrorMsg' = DeleteErrorMsg(err)
                     /\ Did("deletePartner", <<call>>, <<>>, err)
               /\ UNCHANGED <<partners, quotes, pName, pActive, pEditingId, pList>>
            \/ \* it answers; loadPartners(); if (editingId === id) resetForm()
               /\ ~Referenced(row.id)
               /\ partners' = [partners EXCEPT ![row.id] =
                                  [exists |-> FALSE, active |-> FALSE]]
               /\ quotes' = QuotesAfterDelete(quotes, "partners", row.id)
               /\ \E okL \in BOOLEAN :
                     /\ pList' = IF okL THEN PartnerRows(partners') ELSE {}
                     /\ IF pEditingId = Some(row.id)
                        THEN resetForm
                        ELSE /\ pErrorMsg' = IF okL THEN NoMsg ELSE "loadError"
                             /\ UNCHANGED <<pName, pActive, pEditingId>>
               /\ Did("deletePartner", <<call, [rpc |-> "partners.select"]>>,
                      <<>>, NoMsg)
    /\ UNCHANGED <<terrs, quoteVars, mapVars, geomVars>>

-----------------------------------------------------------------------------
(* Initial states of the pages *)


InitQuotes ==
    /\ lat = "" /\ lng = ""
    /\ assignment = None /\ created = None /\ rows = <<>>
    /\ infoMsg = NoMsg /\ errorMsg = NoMsg

InitMap ==
    /\ mode = "quote"
    /\ quoteLat = None /\ quoteLng = None /\ match = None
    /\ territories = {}
    /\ selectedTerritory = None /\ selectedLayer = None
    /\ editName = "" /\ editPriority = [fin |-> TRUE, v |-> 0, frac |-> 0] /\ editPartnerId = None
    /\ overlaps = <<>> /\ overlapIds = {}
    /\ auditOpen = FALSE /\ globalOverlaps = <<>>
    /\ mapErrorMsg = NoMsg /\ mapInfoMsg = Info("null")
    /\ resolveStreak = 0
    /\ partnersActive = {} /\ selectedPartnerId = None

InitPartnersPage ==
    /\ pName = "" /\ pActive = TRUE /\ pEditingId = None
    /\ pList = {} /\ pErrorMsg = NoMsg

InitAdapter ==
    /\ geojson = <<>> /\ polys = <<>> /\ adapterThrew = FALSE /\ persisted = <<>>

InitLast ==
    /\ lastOp = "init" /\ lastCalls = <<>> /\ lastData = <<>> /\ lastError = NoMsg
    /\ inflight = {} /\ issueSeq = 0

\* Nobody is signed in, no quote page has been opened, no operation runs.
InitAuth ==
    /\ session = "none" /\ admin = FALSE /\ detailRow = None /\ detailAdmin = FALSE
    /\ detailErrorMsg = NoMsg
    /\ busy = [f \in BusyFlags |-> FALSE] /\ formPending = {}
    /\ quoteId = None

\* Any territory set and any partner set the database can hold.
TerrStates ==
    [exists : {TRUE}, name : {"T"}, partner_id : PartnerIds,
     priority : Priorities, geom : Shapes]
    \cup {[exists |-> FALSE, name |-> "T", partner_id |-> 1, priority |-> 0,
           geom |-> {}]}

PartnerStates == [exists : {TRUE}, active : BOOLEAN]

-----------------------------------------------------------------------------
(* Specification of the matcher: any territory set, any point typed *)

MatchLat == {"45", "46", "0"}
MatchLng == {"-73", "0"}

InitMatch ==
    /\ terrs \in [TerrIds -> TerrStates]
    /\ partners \in [PartnerIds -> PartnerStates]
    /\ quotes = <<>>
    /\ InitQuotes /\ InitMap /\ InitPartnersPage /\ InitAdapter /\ InitLast
    /\ InitAuth

NextMatch ==
    \/ TypeLat(MatchLat)
    \/ TypeLng(MatchLng)
    \/ findAssignment

SpecMatch == InitMatch /\ [][NextMatch]_vars

\* The point findAssignment last asked about, and what the database holds there.
AskedPoint == <<Number(lat).v, Number(lng).v>>
Answered(op) == lastOp = op /\ lastCalls # <<>> /\ lastError = NoMsg
Containing(pt) == {t \in TerrIds : Contains(t, pt)}
EligibleAt(pt) == {t \in TerrIds : Eligible(t, pt)}

C4_NoMatchIsNormal ==
    (Answered("findAssignment") /\ EligibleAt(AskedPoint) = {}) =>
        /\ assignment = None
        /\ infoMsg = "noMatch"
        /\ errorMsg = NoMsg

\* Territories exist, none contains the point, and the no-match message shows.
C4_Witness ==
    /\ Answered("findAssignment")
    /\ Containing(AskedPoint) = {}
    /\ \E t \in TerrIds : terrs[t].exists
    /\ infoMsg = "noMatch"

\* C5: the territory returned never belongs to an inactive partner; a
\* containing territory of an inactive partner is skipped, and the best
\* territory of an active partner (or none) is returned.
C5_InactivePartnerExcluded ==
    Answered("findAssignment") =>
        /\ assignment # None =>
              /\ partners[terrs[assignment[1].territory_id].partner_id].active
              /\ assignment[1].assigned_partner_id
                     = terrs[assignment[1].territory_id].partner_id
        /\ assignment = None =>
              \A t \in Containing(AskedPoint) :
                  ~partners[terrs[t].partner_id].active

\* The highest-priority territory containing the point belongs to an inactive
\* partner and a lower-priority territory of an active partner is returned.
C5_Witness ==
    /\ Answered("findAssignment")
    /\ assignment # None
    /\ \E t \in Containing(AskedPoint) :
          /\ ~partners[terrs[t].partner_id].active
          /\ terrs[t].priority > assignment[1].priority

-----------------------------------------------------------------------------
(* Specification of the priority resolver: any territory set, one map *)

\* Territory 1 covers both places; the others cover one of them each, so
\* territory 1 overlaps every other one and the others overlap in pairs.
ResolveGeom(t) == IF t = 1 THEN {PA, PB} ELSE IF t % 2 = 0 THEN {PA} ELSE {PB}

InitResolve ==
    /\ terrs \in [TerrIds -> TerrStates]
    /\ \A t \in TerrIds :
          terrs[t].exists => terrs[t].partner_id = 1 /\ terrs[t].geom = ResolveGeom(t)
    /\ partners = [p \in PartnerIds |-> [exists |-> TRUE, active |-> TRUE]]
    /\ quotes = <<>>
    /\ InitQuotes /\ InitMap /\ InitPartnersPage /\ InitAdapter /\ InitLast
    /\ InitAuth

NextResolve ==
    \/ loadTerritories
    \/ setMode
    \/ selectLayer
    \/ toggleAudit
    \/ resolveSelectedOverlap

SpecResolve == InitResolve /\ [][NextResolve]_vars

ResolveAnswered ==
    /\ lastOp' = "resolveSelectedOverlap" /\ lastError' = NoMsg
    /\ selectedTerritory # None

\* C2: resolveSelectedOverlap on a territory T that overlaps at least one
\* other territory sets T's priority to 1 + the maximum priority among the
\* territories T overlaps, so T then strictly outranks every territory it
\* overlaps; the returned old_priority and new_priority, which the handler
\* shows and copies into the priority field, are T's priority before and after.
C2_ResolveRaisesAboveOverlaps ==
    [][ (ResolveAnswered /\ OverlapSetIn(terrs, selectedTerritory[1].id) # {}) =>
          LET id == selectedTerritory[1].id
              before == terrs[id].priority
              after == terrs'[id].priority
          IN  /\ after = 1 + MaxOf({terrs[u].priority : u \in OverlapSetIn(terrs, id)})
              /\ \A u \in OverlapSetIn(terrs', id) : after > terrs'[u].priority
              /\ \A u \in TerrIds \ {id} : terrs'[u] = terrs[u]
              /\ lastData' = <<[old_priority |-> before, new_priority |-> after]>>
              /\ mapInfoMsg' = [kind |-> "priority", old |-> before, new |-> after]
              /\ editPriority' = [fin |-> TRUE, v |-> after, frac |-> 0]
      ]_vars

\* A resolve that raised a territory above two overlapped territories of
\* different priorities.
C2_Witness ==
    /\ lastOp = "resolveSelectedOverlap" /\ lastError = NoMsg /\ lastData # <<>>
    /\ lastData[1].new_priority > lastData[1].old_priority
    /\ \E u, w \in OverlapSetIn(terrs, selectedTerritory[1].id) :
          terrs[u].priority < terrs[w].priority

\* C3: a second resolveSelectedOverlap on the same territory, with nothing
\* changed in between, leaves its priority at the value the first call set:
\* the returned new priority equals the old one.
C3_ResolveIdempotent ==
    [][ (resolveStreak >= 1 /\ resolveStreak' = 2) =>
          /\ terrs' = terrs
          /\ lastData'[1].new_priority = lastData'[1].old_priority
          /\ lastData'[1].new_priority = lastData[1].new_priority
          /\ editPriority' = editPriority
      ]_vars

\* Two resolve calls in a row on a territory that overlaps another: the second
\* has answered with equal old and new priorities.
C3_Witness ==
    /\ resolveStreak = 2
    /\ lastOp = "resolveSelectedOverlap" /\ lastData # <<>>
    /\ terrs[selectedTerritory[1].id].priority = lastData[1].new_priority
    /\ mapInfoMsg.old = mapInfoMsg.new

-----------------------------------------------------------------------------
(* Specification of the geometry adapter: a stored geometry is received,   *)
(* rendered as editable polygons, and the polygons are serialised again    *)

MaxRings == 2

Geo(type, coordinates, geometry, features) ==
    [type |-> type, coordinates |-> coordinates, geometry |-> geometry,
     features |-> features]

PolygonOf(rings) == Geo("Polygon", Arr(rings), <<>>, NotArr("undef"))
MultiPolygonOf(polygons) == Geo("MultiPolygon", Arr(polygons), <<>>, NotArr("undef"))
FeatureOf(mg) == Geo("Feature", NotArr("undef"), mg, NotArr("undef"))
FeatureCollectionOf(features) == Geo("FeatureCollection", NotArr("undef"), <<>>, features)

\* Points, in GeoJSON order (lng, lat); 10 units are 0.000001 degree.
PtA == Pt(Num(10), Num(20))
PtB == Pt(Num(30), Num(20))
PtC == Pt(Num(30), Num(40))
PtD == Pt(Num(10), Num(40))
PtFine == Pt(Num(14), Num(20))

RingPool ==
    << Arr(<<PtA, PtB, PtC, PtD, PtA>>),             \* a closed square
       Arr(<<PtB, PtC, PtD, PtB>>),                  \* a closed triangle
       Arr(<<PtA, PtB>>),                            \* two points
       Arr(<<PtA, Pt(CNull, Num(20)), PtB, PtC, PtA>>),   \* a null coordinate
       Arr(<<PtA, Pt(Num(30), CNull), PtB>>),        \* too short once filtered
       Arr(<<PtFine, PtB, PtC, PtFine>>),            \* a seventh decimal
       Arr(<<PtA, Pt(CInf, Num(20)), PtB, PtC, PtA>>),    \* an infinite coordinate
       Arr(<<PtA, Pt(CStr, Num(20)), PtB, PtC, PtA>>),    \* a string coordinate
       NotArr("null"),                               \* no array at all
       Arr(<<PtA, PtB, PtC>>),                       \* not closed
       Arr(<<PtA, Arr(<<Num(30)>>), PtB, NotArr("null"), PtC, PtA>>) >>

RingChoices == UNION {[1..n -> 1..Len(RingPool)] : n \in 0..MaxRings}

RingsChosen(ch) == [i \in 1..Len(ch) |-> RingPool[ch[i]]]

OneRingPolygon(r) == Arr(<<r>>)

FeatureOrNull(r) == IF r.k = "arr" THEN <<FeatureOf(<<PolygonOf(<<r>>)>>)>> ELSE <<>>

\* The geometry a choice of rings makes in one of the four accepted forms.
Build(form, ch) ==
    CASE form = "Polygon" -> PolygonOf(RingsChosen(ch))
      [] form = "MultiPolygon" -> MultiPolygonOf(SeqMap(OneRingPolygon, RingsChosen(ch)))
      [] form = "Feature" -> FeatureOf(<<PolygonOf(RingsChosen(ch))>>)
      [] form = "FeatureCollection" ->
            FeatureCollectionOf(Arr(SeqMap(FeatureOrNull, RingsChosen(ch))))

Forms == {"Polygon", "MultiPolygon", "Feature", "FeatureCollection"}

\* Stored values that are no well-formed geometry.
OddPool ==
    << <<>>,
       <<Geo("Polygon", NotArr("undef"), <<>>, NotArr("undef"))>>,
       <<Geo("MultiPolygon", NotArr("undef"), <<>>, NotArr("undef"))>>,
       <<Geo("MultiPolygon", NotArr("num"), <<>>, NotArr("undef"))>>,
       <<FeatureOf(<<>>)>>,
       <<FeatureCollectionOf(NotArr("undef"))>>,
       <<Geo("Point", Arr(<<Num(10), Num(20)>>), <<>>, NotArr("undef"))>> >>

InitGeom ==
    /\ terrs = [t \in TerrIds |-> [exists |-> FALSE, name |-> "T", partner_id |-> 1,
                                   priority |-> 0, geom |-> {}]]
    /\ partners = [p \in PartnerIds |-> [exists |-> TRUE, active |-> TRUE]]
    /\ quotes = <<>>
    /\ InitQuotes /\ InitMap /\ InitPartnersPage /\ InitAdapter /\ InitLast
    /\ InitAuth

\* A territory row arrives with its stored geojson.
ReceiveRow ==
    /\ \/ \E form \in Forms : \E ch \in RingChoices : geojson' = <<Build(form, ch)>>
       \/ \E i \in 1..Len(OddPool) : geojson' = OddPool[i]
    /\ polys' = <<>> /\ adapterThrew' = FALSE /\ persisted' = <<>>
    /\ Did("ReceiveRow", <<>>, <<>>, NoMsg)
    /\ UNCHANGED <<storeVars, quoteVars, mapVars, partnerVars>>

\* syncTerritoriesToFeatureGroup: const polygons = geojsonToLeafletPolygons(tr.geojson)
Render ==
    /\ lastOp = "ReceiveRow"
    /\ LET r == geojsonToLeafletPolygons(geojson)
       IN  polys' = r.polys /\ adapterThrew' = r.threw
    /\ persisted' = <<>>
    /\ Did("Render", <<>>, <<>>, NoMsg)
    /\ UNCHANGED <<storeVars, quoteVars, mapVars, partnerVars, geojson>>

\* const geom = layer.toGeoJSON().geometry, for each rendered layer
Serialize ==
    /\ lastOp = "Render" /\ ~adapterThrew
    /\ persisted' = SeqMap(toGeoJSON, polys)
    /\ Did("Serialize", <<>>, <<>>, NoMsg)
    /\ UNCHANGED <<storeVars, quoteVars, mapVars, partnerVars, geojson, polys,
                   adapterThrew>>

NextGeom == ReceiveRow \/ Render \/ Serialize

SpecGeom == InitGeom /\ [][NextGeom]_vars

RingsOfCoords(coords) == IF coords.k = "arr" THEN coords.items ELSE <<>>

\* The rings of a geometry, in order.
RECURSIVE InputRings(_)
InputRings(mg) ==
    IF mg = <<>> THEN <<>>
    ELSE CASE mg[1].type = "Polygon" -> RingsOfCoords(mg[1].coordinates)
           [] mg[1].type = "MultiPolygon" ->
                Flatten(SeqMap(RingsOfCoords, RingsOfCoords(mg[1].coordinates)))
           [] mg[1].type = "Feature" -> InputRings(mg[1].geometry)
           [] mg[1].type = "FeatureCollection" ->
                Flatten(SeqMap(InputRings, RingsOfCoords(mg[1].features)))
           [] OTHER -> <<>>

RingNotDropped(ring) == RingKept(FilteredRing(ring))

PersistedRings(o) == o.coordinates.items

\* C7: once a stored geometry g has been rendered and its layers serialised,
\* the rings of the serialised geometries are exactly the rings of g that
\* the rendering did not drop, unchanged and in the same order.
C7_RoundTripKeepsRings ==
    lastOp = "Serialize" =>
        Flatten(SeqMap(PersistedRings, persisted))
            = SelectSeq(InputRings(geojson), RingNotDropped)

FiniteLatLng(ll) == ll[1].k = "num" /\ ll[2].k = "num"

\* C8: rendering a stored geometry never raises, and no point of a rendered
\* ring has a null, undefined or non-finite coordinate.
C8_RenderFiltersBadPoints ==
    lastOp = "Render" =>
        /\ ~adapterThrew
        /\ \A i \in 1..Len(polys) : \A j \in 1..Len(polys[i].latlngs) :
              \A n \in 1..Len(polys[i].latlngs[j]) :
                  FiniteLatLng(polys[i].latlngs[j][n])

-----------------------------------------------------------------------------
(* Specification of the entry points: a fixed territory set, one visitor   *)
(* who opens one page at a time, types, clicks and saves                   *)

EntryLat == {"", "abc", "45", "91"}
EntryLng == {"", "-73", "-181"}
ClickLat == {45}
ClickLng == {-73, 181}
UrlLat == {None, Some("45"), Some("-91")}
UrlLng == {None, Some(""), Some("-73"), Some("181")}
EditNames == {"", " ", "N"}
PartnerNames == {"", " ", "P"}

\* Territory 1 covers both places with priority 0, territory 2 covers the
\* first with priority 1; both belong to partner 1, the only partner.
EntryTerr(t) ==
    IF t = 1 THEN [exists |-> TRUE, name |-> "T", partner_id |-> 1, priority |-> 0,
                   geom |-> {PA, PB}]
    ELSE IF t = 2 THEN [exists |-> TRUE, name |-> "T", partner_id |-> 1,
                        priority |-> 1, geom |-> {PA}]
    ELSE [exists |-> FALSE, name |-> "T", partner_id |-> 1, priority |-> 0,
          geom |-> {}]

InitEntry ==
    /\ terrs = [t \in TerrIds |-> EntryTerr(t)]
    /\ partners = [p \in PartnerIds |-> [exists |-> p = 1, active |-> p = 1]]
    /\ quotes = <<>>
    /\ InitQuotes /\ InitMap /\ InitPartnersPage /\ InitAdapter /\ InitLast
    /\ InitAuth

\* Leaving a page unmounts it: its state is gone when it is opened again.
Unmount ==
    /\ ~(InitQuotes /\ InitMap /\ InitPartnersPage)
    /\ lat' = "" /\ lng' = ""
    /\ assignment' = None /\ created' = None /\ rows' = <<>>
    /\ infoMsg' = NoMsg /\ errorMsg' = NoMsg
    /\ mode' = "quote"
    /\ quoteLat' = None /\ quoteLng' = None /\ match' = None
    /\ territories' = {}
    /\ clearSelection
    /\ auditOpen' = FALSE /\ globalOverlaps' = <<>>
    /\ mapErrorMsg' = NoMsg /\ mapInfoMsg' = Info("null")
    /\ resolveStreak' = 0
    /\ partnersActive' = {} /\ selectedPartnerId' = None
    /\ pList' = {}
    /\ resetForm
    /\ Did("unmount", <<>>, <<>>, NoMsg)
    /\ UNCHANGED <<storeVars, geomVars>>

\* The page that is open: the other two are unmounted.
OnQuotes == InitMap /\ InitPartnersPage
OnMap == InitQuotes /\ InitPartnersPage
OnPartners == InitQuotes /\ InitMap

NextEntry ==
    \/ OnQuotes /\ TypeLat(EntryLat)
    \/ OnQuotes /\ TypeLng(EntryLng)
    \/ OnQuotes /\ findAssignment
    \/ OnQuotes /\ createQuote
    \/ OnMap /\ loadTerritories
    \/ OnMap /\ setMode
    \/ OnMap /\ MapClick(ClickLat, ClickLng)
    \/ OnMap /\ findPartner
    \/ OnMap /\ UrlEffect(UrlLat, UrlLng)
    \/ OnMap /\ selectLayer
    \/ OnMap /\ SetEditName(EditNames)
    \/ OnMap /\ saveSelectedTerritoryMeta
    \/ OnPartners /\ loadPartners
    \/ OnPartners /\ TypePartnerName(PartnerNames)
    \/ OnPartners /\ savePartner
    \/ Unmount

SpecEntry == InitEntry /\ [][NextEntry]_vars

CoordinateCalls == {"find_assignment_by_point", "find_partner_by_point", "create_quote"}

InRange(la, ln) == la >= -90 /\ la <= 90 /\ ln >= -180 /\ ln <= 180

\* C9: no handler of an entry point (the quote form, the URL parameters of
\* the map, a click on the map) issues a matcher or quote-creation call with
\* a latitude outside [-90, 90] or a longitude outside [-180, 180].
C9_OutOfRangeNeverSent ==
    \A i \in 1..Len(lastCalls) :
        lastCalls[i].rpc \in CoordinateCalls =>
            InRange(lastCalls[i].lat, lastCalls[i].lng)

\* C10: a handler started with a required field missing (an empty latitude
\* or longitude in the quote form, an empty name or no partner when a
\* territory is saved, an empty partner name) issues no call and leaves an
\* error message.
C10_MissingFieldRejected ==
    [][ /\ (lastOp' \in {"findAssignment", "createQuote"}
              /\ (Trim(lat) = "" \/ Trim(lng) = ""))
            => (lastCalls' = <<>> /\ errorMsg' # NoMsg)
        /\ (lastOp' = "saveSelectedTerritoryMeta"
              /\ (Trim(editName) = "" \/ editPartnerId = None))
            => (lastCalls' = <<>> /\ mapErrorMsg' \in {"nameRequired", "partnerRequired"})
        /\ (lastOp' = "savePartner" /\ Trim(pName) = "")
            => (lastCalls' = <<>> /\ pErrorMsg' = "Name is required.")
      ]_vars

-----------------------------------------------------------------------------
(* The map in draw mode: territories are drawn for the active partner and
   their geometry is edited; any remote call may fail. *)

\* Territories 1 and 2 exist and overlap on the first place; id 3 is free.
\* Partner 1 owns both; which partners are active is arbitrary.
InitDraw ==
    /\ terrs = [t \in TerrIds |-> EntryTerr(t)]
    /\ partners \in [PartnerIds -> PartnerStates]
    /\ quotes = <<>>
    /\ InitQuotes /\ InitMap /\ InitPartnersPage /\ InitAdapter /\ InitLast
    /\ InitAuth

NextDraw ==
    \/ loadPartners_Map
    \/ SelectPartner
    \/ loadTerritories
    \/ setMode
    \/ DrawCreated
    \/ DrawEdited

SpecDraw == InitDraw /\ [][NextDraw]_vars

\* The handlers that change the persisted territory set.
TerritoryMutations ==
    {"CREATED", "EDITED", "saveSelectedTerritoryMeta", "resolveSelectedOverlap",
     "deleteSelectedTerritory"}

\* C11: when a persistence call of a territory mutation (create, geometry
\* edit of one or several territories, metadata save, resolve, delete)
\* fails, the handler shows the collaborator's message and the persisted
\* territory set is what it was before the handler started.
C11_FailedMutationCommitsNothing ==
    [][ (lastOp' \in TerritoryMutations /\ lastError' # NoMsg)
           => /\ terrs' = terrs
              /\ mapErrorMsg' = lastError' ]_vars

\* The priority shown for the selected territory is the persisted one.
ShownPriorityIsPersisted ==
    (selectedTerritory # None /\ terrs[selectedTerritory[1].id].exists)
        => /\ editPriority.fin
           /\ editPriority.v = terrs[selectedTerritory[1].id].priority

\* C12: when the handler of a successful territory mutation has finished,
\* it has re-fetched the territory list, and the territories shown and the
\* priority shown for the selected territory are the persisted ones.
C12_ShownIsPersistedAfterMutation ==
    [][ (lastOp' \in TerritoryMutations /\ lastError' = NoMsg /\ lastCalls' # <<>>)
           => /\ \E i \in 1..Len(lastCalls') :
                    lastCalls'[i].rpc = "v_territories_geojson"
              /\ territories' = v_territories_geojson(terrs')
              /\ ShownPriorityIsPersisted' ]_vars

-----------------------------------------------------------------------------
(* The fetches of the map as they run: a handler issues its request and
   returns at the await; the answer changes the state when it arrives, in
   any order with the answers of the other requests. *)

\* The most fetches one run of the page issues.
MaxFetches == 3

Request(kind, id) == [kind |-> kind, id |-> id, n |-> issueSeq + 1]

Issue(kind, id) ==
    /\ issueSeq < MaxFetches
    /\ issueSeq' = issueSeq + 1
    /\ inflight' = inflight \cup {Request(kind, id)}

\* loadTerritories up to its await: setErrorMsg(null) and the select.
loadTerritories_Issue ==
    /\ Issue("territories", 0)
    /\ mapErrorMsg' = NoMsg
    /\ resolveStreak' = 0
    /\ DidLast("loadTerritories", <<[rpc |-> "v_territories_geojson"]>>, <<>>, NoMsg)
    /\ UNCHANGED <<storeVars, quoteVars, mode, pointVars, territories, selVars,
                   auditOpen, globalOverlaps, mapInfoMsg, drawVars, partnerVars,
                   geomVars, authVars, busyVars>>

\* loadTerritories after its await: the error, or setTerritories(rows).
loadTerritories_Arrive ==
    \E r \in inflight :
        /\ r.kind = "territories"
        /\ inflight' = inflight \ {r}
        /\ \/ \E err \in BackendErrors :
                 /\ mapErrorMsg' = err
                 /\ UNCHANGED territories
                 /\ DidLast("loadTerritories.answer", <<>>, <<>>, err)
           \/ /\ territories' = v_territories_geojson(terrs)
              /\ UNCHANGED mapErrorMsg
              /\ DidLast("loadTerritories.answer", <<>>, <<>>, NoMsg)
        /\ resolveStreak' = 0
        /\ UNCHANGED <<storeVars, quoteVars, mode, pointVars, selVars, auditOpen,
                       globalOverlaps, mapInfoMsg, drawVars, partnerVars, geomVars,
                       issueSeq, authVars, busyVars>>

\* selectLayer(layer), and loadOverlaps(selected.id) up to its await:
\* setOverlaps([]), setOverlapIds(new Set([id])) and the call.
selectLayer_Issue ==
    /\ mode = "draw"
    /\ \E tr \in territories :
        /\ Issue("overlaps", tr.id)
        /\ selectedLayer' = Some(LayerOf(tr))
        /\ selectedTerritory' = Some(LayerOf(tr).territory)
        /\ editName' = tr.name
        /\ editPriority' = [fin |-> TRUE, v |-> tr.priority, frac |-> 0]
        /\ editPartnerId' = Some(tr.partner_id)
        /\ overlaps' = <<>>
        /\ overlapIds' = {tr.id}
        /\ DidLast("selectLayer",
                   <<[rpc |-> "get_overlaps_for_territory", id |-> tr.id]>>,
                   <<>>, NoMsg)
    /\ resolveStreak' = 0
    /\ UNCHANGED <<storeVars, quoteVars, mode, pointVars, territories, auditOpen,
                   globalOverlaps, mapErrorMsg, mapInfoMsg, drawVars, partnerVars,
                   geomVars, authVars, busyVars>>

\* const list = (data ?? []) as OverlapRow[]; setOverlaps(list)
OverlapsShown(r) == get_overlaps_for_territory(terrs, r.id)

\* loadOverlaps(territoryId) after its await: the error, or the rows and
\* their ids.
loadOverlaps_Arrive ==
    \E r \in inflight :
        /\ r.kind = "overlaps"
        /\ inflight' = inflight \ {r}
        /\ \/ \E err \in BackendErrors :
                 /\ mapErrorMsg' = err
                 /\ UNCHANGED <<overlaps, overlapIds>>
                 /\ DidLast("loadOverlaps.answer", <<>>, <<>>, err)
           \/ /\ overlaps' = OverlapsShown(r)
              /\ overlapIds' = {r.id} \cup {OverlapsShown(r)[i].other_id :
                                                i \in 1..Len(OverlapsShown(r))}
              /\ UNCHANGED mapErrorMsg
              /\ DidLast("loadOverlaps.answer", <<>>, OverlapsShown(r), NoMsg)
        /\ resolveStreak' = 0
        /\ UNCHANGED <<storeVars, quoteVars, mode, pointVars, territories,
                       selectedTerritory, selectedLayer, editName, editPriority,
                       editPartnerId, auditOpen, globalOverlaps, mapInfoMsg, drawVars,
                       partnerVars, geomVars, issueSeq, authVars, busyVars>>

InitFetch ==
    /\ terrs = [t \in TerrIds |-> EntryTerr(t)]
    /\ partners = [p \in PartnerIds |-> [exists |-> TRUE, active |-> TRUE]]
    /\ quotes = <<>>
    /\ InitQuotes /\ InitMap /\ InitPartnersPage /\ InitAdapter /\ InitLast
    /\ InitAuth

NextFetch ==
    \/ setMode
    \/ loadTerritories_Issue
    \/ loadTerritories_Arrive
    \/ selectLayer_Issue
    \/ loadOverlaps_Arrive

SpecFetch == InitFetch /\ [][NextFetch]_vars

\* C13: once every overlaps request has been answered, the overlaps shown
\* for the selected territory are those of the request issued last, the one
\* of the selection: its rows, or none when it failed.
C13_LastIssuedFetchWins ==
    (selectedTerritory # None /\ \A r \in inflight : r.kind # "overlaps")
        => overlaps \in {<<>>,
                         get_overlaps_for_territory(terrs, selectedTerritory[1].id)}

-----------------------------------------------------------------------------
(* The quotes page over a store whose only partner may be inactive. *)

InitQuote ==
    /\ terrs = [t \in TerrIds |-> EntryTerr(t)]
    /\ \E a \in BOOLEAN :
          partners = [p \in PartnerIds |-> [exists |-> p = 1, active |-> p = 1 /\ a]]
    /\ quotes = <<>>
    /\ InitQuotes /\ InitMap /\ InitPartnersPage /\ InitAdapter /\ InitLast
    /\ InitAuth

NextQuote ==
    \/ TypeLat(EntryLat)
    \/ TypeLng(EntryLng)
    \/ findAssignment
    \/ createQuote

SpecQuote == InitQuote /\ [][NextQuote]_vars

\* A quote is wholly assigned or wholly unassigned.
QuoteConsistent(q) ==
    \/ /\ q.status = "assigned"
       /\ q.territory_id # None /\ q.assigned_partner_id # None
       /\ q.reason = None
    \/ /\ q.status = "unassigned"
       /\ q.territory_id = None /\ q.assigned_partner_id = None
       /\ q.reason # None /\ q.reason[1] # ""

\* C14: the quote create_quote stores is assigned exactly when a territory
\* of an active partner contains its point; an assigned quote has its
\* territory and partner references set and no reason, an unassigned quote
\* has neither reference and a non-empty reason.
C14_QuoteWhollyAssignedOrNot ==
    [][ Len(quotes') > Len(quotes)
          => LET q == quotes'[Len(quotes')]
             IN  /\ QuoteConsistent(q)
                 /\ (q.status = "assigned") <=>
                        (\E t \in TerrIds :
                            /\ terrs[t].exists /\ <<q.lat, q.lng>> \in terrs[t].geom
                            /\ partners[terrs[t].partner_id].active) ]_vars

C14_Witness ==
    /\ lastOp = "createQuote" /\ quotes # <<>>
    /\ quotes[Len(quotes)].status = "unassigned"
    /\ quotes[Len(quotes)].reason = Some("no_active_partner")

-----------------------------------------------------------------------------
(* A stored quote while territories and partners change. *)

\* The quote create_quote stored for the point PA: territory 2 has the
\* higher priority there.
StoredQuote ==
    [id |-> 1, lat |-> PA[1], lng |-> PA[2], status |-> "assigned", reason |-> None,
     territory_id |-> Some(2), assigned_partner_id |-> Some(1)]

\* Partner 1 is active and owns both territories; partner 2 is inactive and
\* owns nothing.
InitFrame ==
    /\ terrs = [t \in TerrIds |-> EntryTerr(t)]
    /\ partners = [p \in PartnerIds |-> [exists |-> TRUE, active |-> p = 1]]
    /\ quotes = <<StoredQuote>>
    /\ InitQuotes /\ InitMap /\ InitPartnersPage /\ InitAdapter /\ InitLast
    /\ InitAuth

NextFrame ==
    \/ OnMap /\ loadTerritories
    \/ OnMap /\ setMode
    \/ OnMap /\ selectLayer
    \/ OnMap /\ saveSelectedTerritoryMeta
    \/ OnMap /\ resolveSelectedOverlap
    \/ OnMap /\ deleteSelectedTerritory
    \/ OnPartners /\ loadPartners
    \/ OnPartners /\ startEdit
    \/ OnPartners /\ SetActive
    \/ OnPartners /\ savePartner
    \/ OnPartners /\ deletePartner
    \/ Unmount

SpecFrame == InitFrame /\ [][NextFrame]_vars

\* The handlers that change a territory or a partner.
PartnerMutations == {"savePartner", "deletePartner"}

-----------------------------------------------------------------------------
\* The ids in the rows get_overlaps_for_territory answers for territory id.
OverlapIdsOf(ts, id) ==
    {get_overlaps_for_territory(ts, id)[i].other_id :
        i \in 1..Len(get_overlaps_for_territory(ts, id))}

\* C16: the rows loadOverlaps receives for a territory A never name A itself,
\* and every territory B they name has A among its own overlaps.
C16_OverlapsSymmetric ==
    (lastOp = "selectLayer" /\ lastError = NoMsg)
        => \A i \in 1..Len(lastData) :
              /\ lastData[i].other_id # lastCalls[1].id
              /\ lastCalls[1].id \in OverlapIdsOf(terrs, lastData[i].other_id)

C16_Witness ==
    /\ lastOp = "selectLayer" /\ lastError = NoMsg
    /\ Len(lastData) = 2
    /\ selectedTerritory # None /\ Len(overlaps) = 2

-----------------------------------------------------------------------------
-----------------------------------------------------------------------------
(* The geometry of one territory as the map persists it: drawn, rendered
   from the stored value, edited, saved again. *)

\* Vertices (lat, lng) a user can place; the last one rounds to the first.
LA == <<Num(20), Num(10)>>
LB == <<Num(20), Num(30)>>
LC == <<Num(40), Num(30)>>
LFine == <<Num(21), Num(14)>>
DrawnVertices == {LA, LB, LFine}

\* draw: { polygon: true, rectangle: true, polyline: false, marker: false,
\* circle: false, circlemarker: false }: a polygon is finished with three
\* vertices or more, a rectangle has four.
DrawTools ==
    [1..3 -> DrawnVertices] \cup {<<LA, LB, LC, <<Num(40), Num(10)>> >>}

\* JSON.stringify of the payload: a non-finite number becomes null.
StoredCoord(c) == IF c.k = "num" THEN c ELSE CNull
StoredPoint(pt) == Arr(SeqMap(StoredCoord, pt.items))
StoredRing(r) == Arr(SeqMap(StoredPoint, r.items))
AsStored(geom) ==
    [geom EXCEPT !.coordinates = Arr(SeqMap(StoredRing, geom.coordinates.items))]

\* The rings an edit session can turn a ring into: a vertex dragged to
\* another place, or a vertex removed while three remain.
EditedRings(r) ==
    {[r EXCEPT ![j] = v] : j \in 1..Len(r), v \in DrawnVertices}
    \cup {SubSeq(r, 1, j - 1) \o SubSeq(r, j + 1, Len(r)) :
             j \in {x \in 1..Len(r) : Len(r) >= 4}}

\* loadTerritories() and the sync effect after a saved geometry: the layers
\* are rebuilt from the stored value, or stay when the load fails.
Rerender(okT, kept) ==
    LET r == geojsonToLeafletPolygons(geojson')
    IN  /\ polys' = IF okT THEN r.polys ELSE kept
        /\ adapterThrew' = IF okT THEN r.threw ELSE adapterThrew

\* Draw.Event.CREATED: geom = layer.toGeoJSON().geometry, upsert_territory
Created_Geometry ==
    /\ geojson = <<>>
    /\ \E ring \in DrawTools :
        LET geom == toGeoJSON([latlngs |-> <<ring>>])
        IN  /\ persisted' = <<geom>>
            /\ \/ /\ UNCHANGED <<geojson, polys, adapterThrew>>
                  /\ Did("CREATED", <<[rpc |-> "upsert_territory"]>>, <<>>, RpcError)
               \/ /\ geojson' = <<AsStored(geom)>>
                  /\ \E okT \in BOOLEAN : Rerender(okT, polys)
                  /\ Did("CREATED", <<[rpc |-> "upsert_territory"]>>, <<>>, NoMsg)
    /\ UNCHANGED <<storeVars, quoteVars, mapVars, partnerVars>>

\* Draw.Event.EDITED for one layer of the territory
Edited_Geometry ==
    /\ \E i \in 1..Len(polys) : \E j \in 1..Len(polys[i].latlngs) :
         \E ring \in EditedRings(polys[i].latlngs[j]) :
            LET layer == [latlngs |-> [polys[i].latlngs EXCEPT ![j] = ring]]
                geom == toGeoJSON(layer)
                edited == [polys EXCEPT ![i] = layer]
            IN  /\ persisted' = <<geom>>
                /\ \/ /\ polys' = edited
                      /\ UNCHANGED <<geojson, adapterThrew>>
                      /\ Did("EDITED", <<[rpc |-> "upsert_territory"]>>, <<>>,
                             RpcError)
                   \/ /\ geojson' = <<AsStored(geom)>>
                      /\ \E okT \in BOOLEAN : Rerender(okT, edited)
                      /\ Did("EDITED", <<[rpc |-> "upsert_territory"]>>, <<>>, NoMsg)
    /\ UNCHANGED <<storeVars, quoteVars, mapVars, partnerVars>>

\* saveSelectedTerritoryMeta: geom = selectedLayerRef.current.toGeoJSON().geometry
SaveMeta_Geometry ==
    /\ \E i \in 1..Len(polys) :
        LET geom == toGeoJSON(polys[i])
        IN  /\ persisted' = <<geom>>
            /\ \/ /\ UNCHANGED <<geojson, polys, adapterThrew>>
                  /\ Did("saveSelectedTerritoryMeta",
                         <<[rpc |-> "upsert_territory"]>>, <<>>, RpcError)
               \/ /\ geojson' = <<AsStored(geom)>>
                  /\ \E okT \in BOOLEAN : Rerender(okT, polys)
                  /\ Did("saveSelectedTerritoryMeta",
                         <<[rpc |-> "upsert_territory"]>>, <<>>, NoMsg)
    /\ UNCHANGED <<storeVars, quoteVars, mapVars, partnerVars>>

\* loadTerritories() on mount and the sync effect
Load_Geometry ==
    /\ LET r == geojsonToLeafletPolygons(geojson)
       IN  polys' = r.polys /\ adapterThrew' = r.threw
    /\ persisted' = <<>>
    /\ Did("loadTerritories", <<[rpc |-> "v_territories_geojson"]>>, <<>>, NoMsg)
    /\ UNCHANGED <<storeVars, quoteVars, mapVars, partnerVars, geojson>>

\* A coordinate pair of two finite numbers.
ValidPair(pt) ==
    /\ pt.k = "arr" /\ Len(pt.items) >= 2
    /\ pt.items[1].k = "num" /\ pt.items[2].k = "num"

ValidRing(r) ==
    /\ r.k = "arr"
    /\ Cardinality({n \in 1..Len(r.items) : ValidPair(r.items[n])}) >= 3

ValidPolygonCoords(coords) ==
    /\ coords.k = "arr"
    /\ \E j \in 1..Len(coords.items) : ValidRing(coords.items[j])

ValidGeometry(mg) ==
    /\ mg # <<>>
    /\ \/ mg[1].type = "Polygon" /\ ValidPolygonCoords(mg[1].coordinates)
       \/ /\ mg[1].type = "MultiPolygon" /\ mg[1].coordinates.k = "arr"
          /\ \E m \in 1..Len(mg[1].coordinates.items) :
                ValidPolygonCoords(mg[1].coordinates.items[m])

\* The rings of a stored geometry the run can start from: coordinate pairs
\* of geographic coordinates, closed or not, three pairs at least.
StartRings ==
    {Arr(<<PtA, PtB, PtC, PtD, PtA>>), Arr(<<PtB, PtC, PtD, PtB>>),
     Arr(<<PtFine, PtB, PtC, PtFine>>), Arr(<<PtA, PtB, PtC>>),
     Arr(<<PtA, PtB, PtA>>), Arr(<<PtA, PtA, PtA>>)}

InitPersist ==
    /\ terrs = [t \in TerrIds |-> [exists |-> FALSE, name |-> "T", partner_id |-> 1,
                                   priority |-> 0, geom |-> {}]]
    /\ partners = [p \in PartnerIds |-> [exists |-> TRUE, active |-> TRUE]]
    /\ quotes = <<>>
    /\ InitQuotes /\ InitMap /\ InitPartnersPage /\ InitLast /\ InitAuth
    /\ geojson \in {<<>>} \cup {<<PolygonOf(<<r>>)>> : r \in StartRings}
                          \cup {<<PolygonOf(<<r, Arr(<<PtA, PtB>>)>>)>> : r \in StartRings}
    /\ polys = <<>> /\ adapterThrew = FALSE /\ persisted = <<>>

NextPersist ==
    \/ Load_Geometry
    \/ Created_Geometry
    \/ Edited_Geometry
    \/ SaveMeta_Geometry

SpecPersist == InitPersist /\ [][NextPersist]_vars

\* C18: whatever is created, edited and saved, the stored geometry of a
\* territory has a ring with at least three valid coordinate pairs.
C18_StoredGeometryValid ==
    geojson # <<>> => ValidGeometry(geojson)

\* A ring of three pairs only, the last closing it, has been saved again.
C18_Witness ==
    /\ lastOp = "saveSelectedTerritoryMeta" /\ lastError = NoMsg
    /\ geojson # <<>>
    /\ Len(geojson[1].coordinates.items[1].items) = 3

-----------------------------------------------------------------------------
(* Refusals for lack of privilege *)

\* The messages that tell the user the action needs an administrator.
PrivilegeMessages == {"adminOnly", "saveError: adminOnly"}

\* C19: a territory or partner mutation the backend refuses for lack of
\* privilege ends with an insufficient-privilege message on the page, never
\* with the backend's own error string.
C19_PrivilegeRefusalDistinguished ==
    [][ (lastError' = RlsError)
           => /\ lastOp' \in TerritoryMutations => mapErrorMsg' \in PrivilegeMessages
              /\ lastOp' \in PartnerMutations => pErrorMsg' \in PrivilegeMessages ]_vars

-----------------------------------------------------------------------------
(* Quote list and quote detail: who may delete a quote *)

Roles == {"user", "admin"}

isAdmin_AnyUser(lookupOk) == session # "none"

\* isAdmin(): false without a user, false when the role lookup fails,
\* otherwise whether the profile's role is "admin".
isAdmin(lookupOk) ==
    IF session = "none" THEN FALSE
    ELSE IF ~lookupOk THEN FALSE
    ELSE session = "admin"

\* login page: signInWithPassword, then the redirect; no quote page is open.
SignIn ==
    /\ session = "none"
    /\ \E r \in Roles : session' = r
    /\ admin' = FALSE /\ detailAdmin' = FALSE /\ detailRow' = None
    /\ detailErrorMsg' = NoMsg
    /\ lat' = "" /\ lng' = "" /\ assignment' = None /\ created' = None
    /\ rows' = <<>> /\ infoMsg' = NoMsg /\ errorMsg' = NoMsg
    /\ DidLast("signIn", <<>>, <<>>, NoMsg)
    /\ UNCHANGED <<storeVars, mapVars, partnerVars, geomVars, netVars, busyVars>>

\* TopNav, logout: supabase.auth.signOut(), then router.push to the login
\* page; no quote page is open after it.
SignOut ==
    /\ session # "none"
    /\ session' = "none"
    /\ admin' = FALSE /\ detailAdmin' = FALSE /\ detailRow' = None
    /\ detailErrorMsg' = NoMsg
    /\ lat' = "" /\ lng' = "" /\ assignment' = None /\ created' = None
    /\ rows' = <<>> /\ infoMsg' = NoMsg /\ errorMsg' = NoMsg
    /\ DidLast("signOut", <<>>, <<>>, NoMsg)
    /\ UNCHANGED <<storeVars, mapVars, partnerVars, geomVars, netVars, busyVars>>

\* QuotesPage, the mount effect: setAdmin(await isAdmin()), loadQuotes(true)
MountQuotes ==
    /\ lastOp \in {"init", "signIn", "signOut", "deleteQuote.detail"}
    /\ \E lookupOk \in BOOLEAN : admin' = isAdmin(lookupOk)
    /\ \/ rows' = v_quotes_list(quotes) /\ errorMsg' = NoMsg
          /\ DidLast("QuotesPage.mount", <<[rpc |-> "v_quotes_list"]>>, <<>>, NoMsg)
       \/ rows' = rows /\ errorMsg' = "errorPrefix: rpc error"
          /\ DidLast("QuotesPage.mount", <<[rpc |-> "v_quotes_list"]>>, <<>>, RpcError)
    /\ UNCHANGED <<storeVars, lat, lng, assignment, created, infoMsg, mapVars,
                   partnerVars, geomVars, netVars, busyVars, session, detailRow, detailAdmin,
                   detailErrorMsg>>

\* delete from quotes where id = ...: every other row stays as it is
QuotesWithout(qs, id) ==
    LET Kept(q) == q.id # id IN SelectSeq(qs, Kept)

\* QuotesPage: the Delete button of a row, rendered when admin is true;
\* deleteQuote(r.id), confirmed.
deleteQuote ==
    /\ admin
    /\ \E i \in 1..Len(rows) :
        LET call == [rpc |-> "quotes.delete", id |-> rows[i].id]
        IN  \/ /\ errorMsg' = "errorPrefix: rpc error"
               /\ UNCHANGED <<quotes, rows>>
               /\ Did("deleteQuote", <<call>>, <<>>, RpcError)
            \/ /\ quotes' = QuotesWithout(quotes, rows[i].id)
               /\ \/ rows' = v_quotes_list(quotes') /\ errorMsg' = NoMsg
                  \/ rows' = rows /\ errorMsg' = "errorPrefix: rpc error"
               /\ Did("deleteQuote", <<call, [rpc |-> "v_quotes_list"]>>, <<>>, NoMsg)
    /\ UNCHANGED <<terrs, partners, lat, lng, assignment, created, infoMsg, mapVars,
                   partnerVars, geomVars>>

\* QuoteDetailPage opened from a row of the list: setAdmin(await isAdmin())
\* and load(), which finds the quote or shows notFound.
MountDetail ==
    /\ detailRow = None
    /\ \E i \in 1..Len(rows) :
        LET found == SelectSeq(quotes, LAMBDA q : q.id = rows[i].id)
        IN  \/ /\ found # <<>>
               /\ detailRow' = Some(found[1]) /\ detailErrorMsg' = NoMsg
               /\ DidLast("QuoteDetailPage.mount", <<[rpc |-> "v_quotes_list"]>>,
                          <<>>, NoMsg)
            \/ /\ detailRow' = None
               /\ detailErrorMsg' = IF found = <<>> THEN "errorPrefix: notFound"
                                    ELSE "errorPrefix: rpc error"
               /\ DidLast("QuoteDetailPage.mount", <<[rpc |-> "v_quotes_list"]>>,
                          <<>>, IF found = <<>> THEN NoMsg ELSE RpcError)
    /\ \E lookupOk \in BOOLEAN : detailAdmin' = isAdmin(lookupOk)
    /\ UNCHANGED <<storeVars, quoteVars, mapVars, partnerVars, geomVars, netVars, busyVars,
                   session, admin>>

\* QuoteDetailPage: the Delete button, rendered when admin && row;
\* deleteQuote(), confirmed; router.push to the list when the delete answers.
deleteQuote_Detail ==
    /\ detailAdmin /\ detailRow # None
    /\ LET call == [rpc |-> "quotes.delete", id |-> detailRow[1].id]
       IN  \/ /\ detailErrorMsg' = "errorPrefix: rpc error"
              /\ UNCHANGED <<quotes, quoteVars, admin, detailRow, detailAdmin>>
              /\ DidLast("deleteQuote.detail", <<call>>, <<>>, RpcError)
           \/ /\ quotes' = QuotesWithout(quotes, detailRow[1].id)
              /\ detailRow' = None /\ detailAdmin' = FALSE /\ detailErrorMsg' = NoMsg
              /\ admin' = FALSE
              /\ lat' = "" /\ lng' = "" /\ assignment' = None /\ created' = None
              /\ rows' = <<>> /\ infoMsg' = NoMsg /\ errorMsg' = NoMsg
              /\ DidLast("deleteQuote.detail", <<call>>, <<>>, NoMsg)
    /\ UNCHANGED <<terrs, partners, mapVars, partnerVars, geomVars, netVars, busyVars, session>>

InitAdmin ==
    /\ terrs = [t \in TerrIds |-> EntryTerr(t)]
    /\ partners = [p \in PartnerIds |-> [exists |-> p = 1, active |-> p = 1]]
    /\ quotes = <<>>
    /\ InitQuotes /\ InitMap /\ InitPartnersPage /\ InitAdapter /\ InitLast
    /\ InitAuth

NextAdmin ==
    \/ SignIn
    \/ SignOut
    \/ MountQuotes
    \/ TypeLat(EntryLat)
    \/ TypeLng(EntryLng)
    \/ createQuote
    \/ deleteQuote
    \/ MountDetail
    \/ deleteQuote_Detail

SpecAdmin == InitAdmin /\ [][NextAdmin]_vars

\* new is old with some rows taken out, the others unchanged and in order.
RECURSIVE IsSubSeq(_, _)
IsSubSeq(new, old) ==
    IF new = <<>> THEN TRUE
    ELSE IF old = <<>> THEN FALSE
    ELSE IF Head(new) = Head(old) THEN IsSubSeq(Tail(new), Tail(old))
    ELSE IsSubSeq(new, Tail(old))

IsDeletion(old, new) == Len(new) < Len(old) /\ IsSubSeq(new, old)

\* C20: the stored quotes change only by a creation, which adds a row and
\* leaves the others as they are, or by a deletion from the list or the
\* detail page, whose delete action is offered only while the page's admin
\* flag is true; the flag becomes true only when isAdmin() resolves for a
\* signed-in user whose role is admin.
C20_QuotesOnlyDeletedByAdmin ==
    [][ /\ quotes' # quotes =>
            \/ /\ lastOp' = "createQuote"
               /\ Len(quotes') = Len(quotes) + 1
               /\ SubSeq(quotes', 1, Len(quotes)) = quotes
            \/ /\ lastOp' = "deleteQuote" /\ admin
               /\ IsDeletion(quotes, quotes')
            \/ /\ lastOp' = "deleteQuote.detail" /\ detailAdmin
               /\ IsDeletion(quotes, quotes')
        /\ (admin' /\ ~admin) => lastOp' = "QuotesPage.mount" /\ session = "admin"
        /\ (detailAdmin' /\ ~detailAdmin) =>
               lastOp' = "QuoteDetailPage.mount" /\ session = "admin" ]_vars

\* An administrator has just deleted the last quote from the list.
C20_Witness ==
    /\ lastOp = "deleteQuote" /\ lastError = NoMsg /\ quotes = <<>>
    /\ session = "admin"

-----------------------------------------------------------------------------
(* The adapter over the GeoJSON variants *)

\* The polygon one coordinates value stands for: the rings the filter keeps,
\* or nothing when it keeps none.
PolygonFor(coords) ==
    LET rings == SelectSeq(SeqMap(FilteredRing, RingsOfCoords(coords)), RingKept)
    IN  IF rings = <<>> THEN <<>> ELSE <<L_polygon(rings)>>

\* The polygons of a value, variant by variant, in order.
RECURSIVE ExpectedPolys(_)
ExpectedPolys(mg) ==
    IF mg = <<>> THEN <<>>
    ELSE CASE mg[1].type = "Polygon" -> PolygonFor(mg[1].coordinates)
           [] mg[1].type = "MultiPolygon" ->
                Flatten(SeqMap(PolygonFor, RingsOfCoords(mg[1].coordinates)))
           [] mg[1].type = "Feature" ->
                IF mg[1].geometry # <<>>
                      /\ mg[1].geometry[1].type \in {"Polygon", "MultiPolygon"}
                THEN ExpectedPolys(mg[1].geometry) ELSE <<>>
           [] mg[1].type = "FeatureCollection" ->
                Flatten(SeqMap(ExpectedPolys, RingsOfCoords(mg[1].features)))
           [] OTHER -> <<>>

\* C21: rendering is total over the variants: it never raises, and it yields
\* the polygon of a Polygon, one polygon per member of a MultiPolygon, the
\* polygons of a Feature's geometry, the polygons of the features of a
\* FeatureCollection in order, and nothing for any other value.
C21_AdapterTotalOverVariants ==
    lastOp = "Render" =>
        /\ ~adapterThrew
        /\ polys = ExpectedPolys(geojson)

-----------------------------------------------------------------------------
(* The highlighted set while loadOverlaps runs *)

\* ids.add(String(territoryId)); for (const r of list) ids.add(String(r.other_id))
HighlightFor(id, list) == {id} \cup {list[i].other_id : i \in 1..Len(list)}

\* An overlaps request for the selected territory.
ForSelected(r, sel) == r.kind = "overlaps" /\ sel # None /\ r.id = sel[1].id

\* What the map may show of territory id between the selection and the last
\* answer for it: nothing yet, or what an earlier answer for id brought.
OwnHighlights(id) ==
    {[list |-> <<>>, ids |-> {id}],
     [list |-> get_overlaps_for_territory(terrs, id),
      ids |-> HighlightFor(id, get_overlaps_for_territory(terrs, id))]}

\* C22: when loadOverlaps(T) is answered for the selected territory T, the
\* overlaps shown are the rows answered and the highlighted set is T with
\* the ids of those rows; when it fails the error is shown and the set stays
\* as the call left it; while it is awaited the set is {T} and the list is
\* empty (or they are those of an answer already received for T, when T was
\* selected twice).
C22_HighlightFollowsLoadOverlaps ==
    [][ /\ \A r \in inflight \ inflight' :
              ForSelected(r, selectedTerritory) =>
                 IF lastError' = NoMsg
                 THEN /\ overlaps' = get_overlaps_for_territory(terrs, r.id)
                      /\ overlapIds' = HighlightFor(r.id, overlaps')
                 ELSE /\ mapErrorMsg' = lastError'
                      /\ [list |-> overlaps', ids |-> overlapIds'] \in OwnHighlights(r.id)
        /\ \A r \in inflight' :
              ForSelected(r, selectedTerritory') =>
                 [list |-> overlaps', ids |-> overlapIds'] \in OwnHighlights(r.id) ]_vars

-----------------------------------------------------------------------------
(* The quote form as it runs: a handler raises its flag, issues its request
   and returns at the await; the answer is handled when it arrives. *)

FormLat == {"abc", "45"}
FormLng == {"-73"}
Addresses == {"", "addr"}

\* disabled={geocoding || finding || creating} of the three buttons
FormButtonsEnabled_NotWhileFinding ==
    ~busy["geocoding"] /\ ~busy["creating"]

FormButtonsEnabled ==
    ~busy["geocoding"] /\ ~busy["finding"] /\ ~busy["creating"]

\* resetResult()
resetResult ==
    /\ errorMsg' = NoMsg /\ infoMsg' = NoMsg
    /\ assignment' = None /\ created' = None

Raise(flag) == busy' = [busy EXCEPT ![flag] = TRUE]
Lower(flag) == busy' = [busy EXCEPT ![flag] = FALSE]

FormRequest(op, la, ln) == [op |-> op, lat |-> la, lng |-> ln]

FormFrame == UNCHANGED <<mapVars, partnerVars, geomVars, netVars, authVars, quoteId>>

\* geocodeAddress up to its await
geocodeAddress_Start ==
    /\ FormButtonsEnabled
    /\ assignment' = None /\ created' = None /\ infoMsg' = NoMsg
    /\ \E q \in Addresses :
          IF Trim(q) = ""
          THEN /\ errorMsg' = "errorPrefix: Missing address"
               /\ UNCHANGED <<busy, formPending>>
               /\ DidLast("geocodeAddress", <<>>, <<>>, NoMsg)
          ELSE /\ errorMsg' = NoMsg
               /\ Raise("geocoding")
               /\ formPending' = formPending \cup {FormRequest("geocode", 0, 0)}
               /\ DidLast("geocodeAddress", <<[rpc |-> "/api/geocode"]>>, <<>>, NoMsg)
    /\ UNCHANGED <<storeVars, lat, lng, rows>>
    /\ FormFrame

\* geocodeAddress after its await: an error, nothing found, or the point
geocodeAddress_Settle ==
    /\ \E r \in formPending :
        /\ r.op = "geocode"
        /\ formPending' = formPending \ {r}
        /\ \/ /\ errorMsg' = "errorPrefix: Geocoding error"
              /\ UNCHANGED <<lat, lng, infoMsg>>
              /\ DidLast("geocodeAddress.answer", <<>>, <<>>, RpcError)
           \/ /\ infoMsg' = "noMatch"
              /\ UNCHANGED <<lat, lng, errorMsg>>
              /\ DidLast("geocodeAddress.answer", <<>>, <<>>, NoMsg)
           \/ /\ lat' = "45" /\ lng' = "-73"
              /\ UNCHANGED <<infoMsg, errorMsg>>
              /\ DidLast("geocodeAddress.answer", <<>>, <<>>, NoMsg)
    /\ Lower("geocoding")
    /\ UNCHANGED <<storeVars, assignment, created, rows>>
    /\ FormFrame

\* findAssignment up to its await; parseLatLng() throws before any call and
\* the finally block lowers the flag at once.
findAssignment_Start ==
    LET latNum == Number(lat)
        lngNum == Number(lng)
        bad == parseLatLngError(latNum, lngNum)
    IN  /\ FormButtonsEnabled
        /\ assignment' = None /\ created' = None /\ infoMsg' = NoMsg
        /\ IF bad # NoMsg
           THEN /\ errorMsg' = bad
                /\ UNCHANGED <<busy, formPending>>
                /\ DidLast("findAssignment", <<>>, <<>>, NoMsg)
           ELSE /\ errorMsg' = NoMsg
                /\ Raise("finding")
                /\ formPending' = formPending \cup {FormRequest("find", latNum.v, lngNum.v)}
                /\ DidLast("findAssignment",
                           <<[rpc |-> "find_assignment_by_point",
                              lat |-> latNum.v, lng |-> lngNum.v]>>, <<>>, NoMsg)
        /\ UNCHANGED <<storeVars, lat, lng, rows>>
        /\ FormFrame

\* findAssignment after its await
findAssignment_Settle ==
    /\ \E r \in formPending :
        /\ r.op = "find"
        /\ formPending' = formPending \ {r}
        /\ \/ /\ errorMsg' = "rpc error"
              /\ UNCHANGED <<assignment, infoMsg>>
              /\ DidLast("findAssignment.answer", <<>>, <<>>, RpcError)
           \/ LET data == find_assignment_by_point(r.lat, r.lng)
              IN  /\ assignment' = FirstRow(data)
                  /\ infoMsg' = IF FirstRow(data) = None THEN NoMatchInfo(FirstRow(data))
                                ELSE infoMsg
                  /\ UNCHANGED errorMsg
                  /\ DidLast("findAssignment.answer", <<>>, data, NoMsg)
    /\ Lower("finding")
    /\ UNCHANGED <<storeVars, lat, lng, created, rows>>
    /\ FormFrame

\* createQuote up to its await
createQuote_Start ==
    LET latNum == Number(lat)
        lngNum == Number(lng)
        bad == parseLatLngError(latNum, lngNum)
    IN  /\ FormButtonsEnabled
        /\ assignment' = None /\ created' = None /\ infoMsg' = NoMsg
        /\ IF bad # NoMsg
           THEN /\ errorMsg' = bad
                /\ UNCHANGED <<busy, formPending>>
                /\ DidLast("createQuote", <<>>, <<>>, NoMsg)
           ELSE /\ errorMsg' = NoMsg
                /\ Raise("creating")
                /\ formPending' = formPending \cup {FormRequest("create", latNum.v, lngNum.v)}
                /\ DidLast("createQuote",
                           <<[rpc |-> "create_quote", lat |-> latNum.v,
                              lng |-> lngNum.v]>>, <<>>, NoMsg)
        /\ UNCHANGED <<storeVars, lat, lng, rows>>
        /\ FormFrame

\* createQuote after the await of create_quote: the error, or the row and
\* loadQuotes(true) up to its await.
createQuote_Answer ==
    /\ \E r \in formPending :
        /\ r.op = "create"
        /\ \/ /\ errorMsg' = "rpc error"
              /\ formPending' = formPending \ {r}
              /\ Lower("creating")
              /\ UNCHANGED <<quotes, created, infoMsg>>
              /\ DidLast("createQuote.answer", <<>>, <<>>, RpcError)
           \/ /\ Len(quotes) < MaxQuotes
              /\ quotes' = Append(quotes, NewQuote(r.lat, r.lng))
              /\ created' = FirstRow(create_quote(r.lat, r.lng))
              /\ infoMsg' = IF NewQuote(r.lat, r.lng).status = "unassigned"
                            THEN "noMatch" ELSE infoMsg
              /\ errorMsg' = NoMsg
              /\ formPending' = (formPending \ {r}) \cup {FormRequest("createList", 0, 0)}
              /\ busy' = [busy EXCEPT !["listLoading"] = TRUE]
              /\ DidLast("createQuote.answer", <<[rpc |-> "v_quotes_list"]>>,
                         create_quote(r.lat, r.lng), NoMsg)
    /\ UNCHANGED <<terrs, partners, lat, lng, assignment, rows>>
    /\ FormFrame

\* createQuote after the await of loadQuotes(true)
createQuote_Listed ==
    /\ \E r \in formPending :
        /\ r.op = "createList"
        /\ formPending' = formPending \ {r}
        /\ \/ /\ rows' = v_quotes_list(quotes) /\ UNCHANGED errorMsg
              /\ DidLast("createQuote.listed", <<>>, <<>>, NoMsg)
           \/ /\ rows' = rows /\ errorMsg' = "errorPrefix: rpc error"
              /\ DidLast("createQuote.listed", <<>>, <<>>, RpcError)
    /\ busy' = [busy EXCEPT !["listLoading"] = FALSE, !["creating"] = FALSE]
    /\ UNCHANGED <<storeVars, lat, lng, assignment, created, infoMsg>>
    /\ FormFrame

InitForm ==
    /\ terrs = [t \in TerrIds |-> EntryTerr(t)]
    /\ partners = [p \in PartnerIds |-> [exists |-> p = 1, active |-> p = 1]]
    /\ quotes = <<>>
    /\ InitQuotes /\ InitMap /\ InitPartnersPage /\ InitAdapter /\ InitLast
    /\ InitAuth

NextForm ==
    \/ TypeLat(FormLat)
    \/ TypeLng(FormLng)
    \/ geocodeAddress_Start
    \/ geocodeAddress_Settle
    \/ findAssignment_Start
    \/ findAssignment_Settle
    \/ createQuote_Start
    \/ createQuote_Answer
    \/ createQuote_Listed

SpecForm == InitForm /\ [][NextForm]_vars

CreateCalls(calls) == {i \in 1..Len(calls) : calls[i].rpc = "create_quote"}

FormOps == {"geocode", "find", "create", "createList"}

\* At most one of geocoding, finding, creating is true and at most one of
\* their requests is awaited.
OneFormRequest ==
    /\ Cardinality({f \in {"geocoding", "finding", "creating"} : busy[f]}) <= 1
    /\ Cardinality({r \in formPending : r.op \in FormOps}) <= 1

\* C23 as stated: every create-quote action issues exactly one create_quote
\* call, and at most one of the three requests of the form is in flight.
C23_OneCreateCallPerAction ==
    [][ /\ lastOp' = "createQuote" => Cardinality(CreateCalls(lastCalls')) = 1
        /\ OneFormRequest' ]_vars

\* C23, amended: a create-quote action issues exactly one create_quote call
\* when parseLatLng accepts the two inputs and none when it rejects them; at
\* most one of the three requests of the form is in flight, so no second
\* create_quote is issued while one is awaited.
C23_OneCreateCallWhenValid ==
    [][ /\ lastOp' = "createQuote" =>
              Cardinality(CreateCalls(lastCalls')) =
                  IF parseLatLngError(Number(lat), Number(lng)) = NoMsg THEN 1 ELSE 0
        /\ OneFormRequest' ]_vars

\* A create_quote call is awaited, issued for valid inputs.
C23_Witness ==
    /\ lastOp = "createQuote" /\ busy["creating"]
    /\ \E r \in formPending : r.op = "create"

-----------------------------------------------------------------------------
(* The priority the map sends *)

InitPriority ==
    /\ terrs = [t \in TerrIds |-> EntryTerr(t)]
    /\ partners = [p \in PartnerIds |-> [exists |-> TRUE, active |-> TRUE]]
    /\ quotes = <<>>
    /\ InitQuotes /\ InitMap /\ InitPartnersPage /\ InitAdapter /\ InitLast
    /\ InitAuth

NextPriority ==
    \/ setMode
    \/ loadTerritories
    \/ selectLayer
    \/ setEditPriority
    \/ saveSelectedTerritoryMeta

SpecPriority == InitPriority /\ [][NextPriority]_vars

\* C24: every priority sent to upsert_territory is a finite integer.
C24_SentPriorityIsInteger ==
    [][ \A i \in 1..Len(lastCalls') :
           lastCalls'[i].rpc = "upsert_territory" => lastCalls'[i].frac = 0 ]_vars

-----------------------------------------------------------------------------
(* What a metadata save does to the stored geometry *)

\* The second member of a stored MultiPolygon.
StartMembers ==
    {Arr(<<PtB, PtC, PtD, PtB>>), Arr(<<PtFine, PtB, PtC, PtFine>>), Arr(<<PtA, PtB>>)}

\* The territory is stored as a Polygon or as a MultiPolygon of two members.
InitMeta ==
    /\ terrs = [t \in TerrIds |-> [exists |-> FALSE, name |-> "T", partner_id |-> 1,
                                   priority |-> 0, geom |-> {}]]
    /\ partners = [p \in PartnerIds |-> [exists |-> TRUE, active |-> TRUE]]
    /\ quotes = <<>>
    /\ InitQuotes /\ InitMap /\ InitPartnersPage /\ InitLast /\ InitAuth
    /\ geojson \in {<<>>} \cup {<<PolygonOf(<<r>>)>> : r \in StartRings}
                          \cup {<<PolygonOf(<<r, Arr(<<PtA, PtB>>)>>)>> : r \in StartRings}
                          \cup {<<MultiPolygonOf(<<Arr(<<Arr(<<PtA, PtB, PtC, PtD, PtA>>)>>),
                                                   Arr(<<r>>)>>)>> : r \in StartMembers}
    /\ polys = <<>> /\ adapterThrew = FALSE /\ persisted = <<>>

NextMeta ==
    \/ Load_Geometry
    \/ Created_Geometry
    \/ SaveMeta_Geometry

SpecMeta == InitMeta /\ [][NextMeta]_vars

\* The polygons of a stored geometry that the map renders.
PolygonCount(mg) == Len(ExpectedPolys(mg))

\* C25: a metadata save that is answered leaves the stored geometry with
\* every polygon it had: the geometry sent is that of the whole territory.
C25_SaveKeepsEveryPolygon ==
    [][ (lastOp' = "saveSelectedTerritoryMeta" /\ lastError' = NoMsg)
           => PolygonCount(geojson') = PolygonCount(geojson) ]_vars

-----------------------------------------------------------------------------
(* The quote point of the map and the find request as it runs *)

\* a latitude outside every territory
OutsideLat == 47

PointLat == {PA[1], PB[1], OutsideLat}
PointLng == {PA[2], PB[2]}

\* findPartner up to its await: setLoading(true), setErrorMsg(null), the call
findPartner_Start ==
    /\ quoteLat # None /\ quoteLng # None
    /\ ~busy["loading"]
    /\ issueSeq < MaxFetches
    /\ issueSeq' = issueSeq + 1
    /\ inflight' = inflight \cup {[kind |-> "find", lat |-> quoteLat[1],
                                   lng |-> quoteLng[1], n |-> issueSeq + 1]}
    /\ Raise("loading")
    /\ mapErrorMsg' = NoMsg
    /\ resolveStreak' = 0
    /\ DidLast("findPartner", <<[rpc |-> "find_partner_by_point", lat |-> quoteLat[1],
                                 lng |-> quoteLng[1]]>>, <<>>, NoMsg)
    /\ UNCHANGED <<storeVars, quoteVars, mode, pointVars, territories, selVars,
                   auditOpen, globalOverlaps, mapInfoMsg, drawVars, partnerVars,
                   geomVars, authVars, formPending, quoteId>>

\* findPartner after its await: setLoading(false), the error or setMatch
findPartner_Settle ==
    /\ \E r \in inflight :
        /\ r.kind = "find"
        /\ inflight' = inflight \ {r}
        /\ \/ /\ mapErrorMsg' = RpcError
              /\ UNCHANGED match
              /\ DidLast("findPartner.answer", <<>>, <<>>, RpcError)
           \/ /\ match' = FirstRow(find_partner_by_point(r.lat, r.lng))
              /\ UNCHANGED mapErrorMsg
              /\ DidLast("findPartner.answer", <<>>,
                         find_partner_by_point(r.lat, r.lng), NoMsg)
    /\ Lower("loading")
    /\ resolveStreak' = 0
    /\ UNCHANGED <<storeVars, quoteVars, mode, quoteLat, quoteLng, territories,
                   selVars, auditOpen, globalOverlaps, mapInfoMsg, drawVars,
                   partnerVars, geomVars, authVars, formPending, quoteId, issueSeq>>

\* findPartner when its await rejects: the handler has no try block, the
\* rejection leaves it at the await and setLoading(false) is not reached.
findPartner_Reject ==
    /\ \E r \in inflight :
        /\ r.kind = "find"
        /\ inflight' = inflight \ {r}
    /\ resolveStreak' = 0
    /\ DidLast("findPartner.rejected", <<>>, <<>>, RpcError)
    /\ UNCHANGED <<storeVars, quoteVars, mode, pointVars, territories, selVars,
                   auditOpen, globalOverlaps, mapErrorMsg, mapInfoMsg, drawVars,
                   partnerVars, geomVars, authVars, busyVars, issueSeq>>

InitPoint ==
    /\ terrs = [t \in TerrIds |-> EntryTerr(t)]
    /\ partners = [p \in PartnerIds |-> [exists |-> p = 1, active |-> p = 1]]
    /\ quotes = <<>>
    /\ InitQuotes /\ InitMap /\ InitPartnersPage /\ InitAdapter /\ InitLast
    /\ InitAuth

NextPoint ==
    \/ MapClick(PointLat, PointLng)
    \/ findPartner_Start
    \/ findPartner_Settle
    \/ findPartner_Reject

SpecPoint == InitPoint /\ [][NextPoint]_vars

\* C26: a match that is displayed is the answer of the matcher for the quote
\* point that is displayed.
C26_MatchIsForShownPoint ==
    match # None =>
        /\ quoteLat # None /\ quoteLng # None
        /\ match = FirstRow(find_partner_by_point(quoteLat[1], quoteLng[1]))

\* C27: a territory is selected only in draw mode, and with no territory
\* selected the overlaps list and the highlight set are empty.
C27_SelectionOnlyInDrawAndCleared ==
    /\ selectedTerritory # None => mode = "draw"
    /\ selectedTerritory = None => overlaps = <<>> /\ overlapIds = {}

-----------------------------------------------------------------------------
(* The quote tool of the map component (components/map/TerritoryMap) *)

\* create_quote_and_assign(address, lat, lng): the id of the quote it stores
create_quote_and_assign(la, ln) == NewQuote(la, ln).id

ToolRequest(kind, la, ln) == [kind |-> kind, lat |-> la, lng |-> ln, n |-> issueSeq + 1]

ToolFrame ==
    UNCHANGED <<terrs, partners, quoteVars, mode, territories, selVars, auditOpen,
                globalOverlaps, resolveStreak, drawVars, partnerVars, geomVars,
                authVars, formPending>>

\* the Find and Create buttons of the tool
ToolButtonsEnabled ==
    /\ mode = "quote"
    /\ quoteLat # None /\ quoteLng # None
    /\ ~busy["map.finding"] /\ ~busy["map.creating"]

\* setQuotePoint, from a click on the map or on a territory in quote mode
ToolMapClick ==
    /\ mode = "quote"
    /\ \E la \in PointLat : \E ln \in PointLng :
        /\ quoteLat' = Some(la) /\ quoteLng' = Some(ln)
    /\ match' = None /\ quoteId' = None
    /\ mapInfoMsg' = NoMsg /\ mapErrorMsg' = NoMsg
    /\ DidLast("setQuotePoint", <<>>, <<>>, NoMsg)
    /\ UNCHANGED <<quotes, busy, netVars>>
    /\ ToolFrame

\* clearQuote
clearQuote ==
    /\ quoteLat' = None /\ quoteLng' = None
    /\ match' = None /\ quoteId' = None
    /\ mapInfoMsg' = NoMsg /\ mapErrorMsg' = NoMsg
    /\ DidLast("clearQuote", <<>>, <<>>, NoMsg)
    /\ UNCHANGED <<quotes, busy, netVars>>
    /\ ToolFrame

\* findPartnerForPoint up to its await
findPartnerForPoint_Start ==
    /\ ToolButtonsEnabled
    /\ issueSeq < MaxFetches
    /\ mapErrorMsg' = NoMsg /\ mapInfoMsg' = NoMsg /\ quoteId' = None
    /\ Raise("map.finding")
    /\ inflight' = inflight \cup {ToolRequest("tool.find", quoteLat[1], quoteLng[1])}
    /\ issueSeq' = issueSeq + 1
    /\ DidLast("findPartnerForPoint",
               <<[rpc |-> "find_partner_by_point", lat |-> quoteLat[1],
                  lng |-> quoteLng[1]]>>, <<>>, NoMsg)
    /\ UNCHANGED <<quotes, pointVars>>
    /\ ToolFrame

\* What findPartnerForPoint does after its await, but for the flags: the
\* answer goes to match, an error or a rejection to the catch block.
FoundOrFailed(r, op) ==
    \/ /\ mapErrorMsg' = RpcError
       /\ match' = None
       /\ UNCHANGED mapInfoMsg
       /\ DidLast(op, <<>>, <<>>, RpcError)
    \/ LET first == FirstRow(find_partner_by_point(r.lat, r.lng))
       IN  /\ match' = first
           /\ mapInfoMsg' = IF first = None THEN "noMatch" ELSE mapInfoMsg
           /\ UNCHANGED mapErrorMsg
           /\ DidLast(op, <<>>, find_partner_by_point(r.lat, r.lng), NoMsg)

\* findPartnerForPoint after its await, with its finally block
findPartnerForPoint_Settle ==
    /\ \E r \in inflight :
        /\ r.kind = "tool.find"
        /\ inflight' = inflight \ {r}
        /\ FoundOrFailed(r, "findPartnerForPoint.answer")
    /\ Lower("map.finding")
    /\ UNCHANGED <<quotes, quoteLat, quoteLng, quoteId, issueSeq>>
    /\ ToolFrame

\* createQuoteAtPoint up to its await
createQuoteAtPoint_Start ==
    /\ ToolButtonsEnabled
    /\ issueSeq < MaxFetches
    /\ mapErrorMsg' = NoMsg /\ mapInfoMsg' = NoMsg
    /\ Raise("map.creating")
    /\ inflight' = inflight \cup {ToolRequest("tool.create", quoteLat[1], quoteLng[1])}
    /\ issueSeq' = issueSeq + 1
    /\ DidLast("createQuoteAtPoint",
               <<[rpc |-> "create_quote_and_assign", lat |-> quoteLat[1],
                  lng |-> quoteLng[1]]>>, <<>>, NoMsg)
    /\ UNCHANGED <<quotes, pointVars, quoteId>>
    /\ ToolFrame

\* The id displayed once createQuoteAtPoint has run up to the await inside
\* findPartnerForPoint: setQuoteId(String(data)) and then setQuoteId(null).
DisplayedAfterCreate(id) == None

\* createQuoteAtPoint after the await of create_quote_and_assign: the catch
\* and finally blocks, or setQuoteId, setInfoMsg and findPartnerForPoint up to
\* its await.
createQuoteAtPoint_Answer ==
    /\ \E r \in inflight :
        /\ r.kind = "tool.create"
        /\ \/ /\ mapErrorMsg' = RpcError
              /\ inflight' = inflight \ {r}
              /\ Lower("map.creating")
              /\ UNCHANGED <<quotes, quoteId, mapInfoMsg>>
              /\ DidLast("createQuoteAtPoint.answer", <<>>, <<>>, RpcError)
           \/ /\ Len(quotes) < MaxQuotes
              /\ quotes' = Append(quotes, NewQuote(r.lat, r.lng))
              /\ quoteId' = DisplayedAfterCreate(create_quote_and_assign(r.lat, r.lng))
              /\ mapInfoMsg' = NoMsg /\ mapErrorMsg' = NoMsg
              /\ Raise("map.finding")
              /\ inflight' = (inflight \ {r}) \cup
                             {[r EXCEPT !.kind = "tool.createFind"]}
              /\ DidLast("createQuoteAtPoint.answer",
                         <<[rpc |-> "find_partner_by_point", lat |-> r.lat,
                            lng |-> r.lng]>>,
                         <<create_quote_and_assign(r.lat, r.lng)>>, NoMsg)
    /\ UNCHANGED <<pointVars, issueSeq>>
    /\ ToolFrame

\* createQuoteAtPoint after the await of findPartnerForPoint, which catches
\* its own errors: the finally blocks of both.
createQuoteAtPoint_Found ==
    /\ \E r \in inflight :
        /\ r.kind = "tool.createFind"
        /\ inflight' = inflight \ {r}
        /\ FoundOrFailed(r, "createQuoteAtPoint.found")
    /\ busy' = [busy EXCEPT !["map.finding"] = FALSE, !["map.creating"] = FALSE]
    /\ UNCHANGED <<quotes, quoteLat, quoteLng, quoteId, issueSeq>>
    /\ ToolFrame

InitTool ==
    /\ terrs = [t \in TerrIds |-> EntryTerr(t)]
    /\ partners = [p \in PartnerIds |-> [exists |-> p = 1, active |-> p = 1]]
    /\ quotes = <<>>
    /\ InitQuotes /\ InitMap /\ InitPartnersPage /\ InitAdapter /\ InitLast
    /\ InitAuth

NextTool ==
    \/ ToolMapClick
    \/ clearQuote
    \/ findPartnerForPoint_Start
    \/ findPartnerForPoint_Settle
    \/ createQuoteAtPoint_Start
    \/ createQuoteAtPoint_Answer
    \/ createQuoteAtPoint_Found

SpecTool == InitTool /\ [][NextTool]_vars

\* C28: once createQuoteAtPoint has stored a quote, the id returned for it is
\* displayed, during the follow-up lookup and after it.
C28_CreatedIdStaysDisplayed ==
    /\ lastOp = "createQuoteAtPoint.answer" /\ lastError = NoMsg
           => quoteId = Some(lastData[1])
    /\ lastOp = "createQuoteAtPoint.found" => quoteId = Some(Len(quotes))

-----------------------------------------------------------------------------
(* Geometry edits with a territory selected and the audit panel *)

InitEdit ==
    /\ terrs = [t \in TerrIds |-> EntryTerr(t)]
    /\ partners = [p \in PartnerIds |-> [exists |-> TRUE, active |-> TRUE]]
    /\ quotes = <<>>
    /\ InitQuotes /\ InitMap /\ InitPartnersPage /\ InitAdapter /\ InitLast
    /\ InitAuth

NextEdit ==
    \/ setMode
    \/ loadTerritories
    \/ selectLayer
    \/ toggleAudit
    \/ DrawEdited

SpecEdit == InitEdit /\ [][NextEdit]_vars

\* The handler that ran last called rpc.
Called(rpc) == \E i \in 1..Len(lastCalls) : lastCalls[i].rpc = rpc

\* C29: an EDITED event whose upserts all succeeded fetches the overlaps of
\* the selected territory again, and the global audit when its panel is open.
C29_EditRefetchesOverlaps ==
    (lastOp = "EDITED" /\ lastError = NoMsg /\ lastCalls # <<>>) =>
        /\ selectedTerritory # None => Called("get_overlaps_for_territory")
        /\ auditOpen => Called("list_overlaps")

-----------------------------------------------------------------------------
(* Busy flags: every request that was sent settles *)

\* A request in flight is answered or rejected in the end.
FairPoint == SpecPoint /\ WF_vars(findPartner_Settle \/ findPartner_Reject)

FairTool ==
    /\ SpecTool
    /\ WF_vars(findPartnerForPoint_Settle)
    /\ WF_vars(createQuoteAtPoint_Answer)
    /\ WF_vars(createQuoteAtPoint_Found)

FairForm ==
    /\ SpecForm
    /\ WF_vars(geocodeAddress_Settle)
    /\ WF_vars(findAssignment_Settle)
    /\ WF_vars(createQuote_Answer)
    /\ WF_vars(createQuote_Listed)

\* C30: a busy flag that is raised is lowered again.
C30_BusyFlagsAreReset == \A f \in BusyFlags : busy[f] ~> ~busy[f]

====
